---- MODULE Spec2Model ----
(***************************************************************************)
(* Model of Desckars/mcp-server.                                           *)
(*                                                                         *)
(* The repository holds two implementations of one design:                 *)
(*   - Java: StdioTransport (src/unnamed/part_003:640-919),                *)
(*     MCPProtocolHandler (src/unnamed/part_002), ToolManager              *)
(*     (handlers/ToolManager.java), FileSystemTool (part_003:27-620);      *)
(*   - Node: ToolsRegistry (src/unnamed/part_001), UniversalMCPServer and  *)
(*     MCPServer (part_003:939-1222).                                      *)
(*                                                                         *)
(* Two specifications share the ToolManager state:                         *)
(*   Spec          the Java session: the transport's message loop, one     *)
(*                 asynchronous task per message, the protocol handler,    *)
(*                 the shutdown hook;                                      *)
(*   SpecDispatch  the dispatcher on its own: ToolManager.executeTool      *)
(*                 step by step under concurrent callers and registry      *)
(*                 changes (runtime = "java"), and ToolsRegistry.          *)
(*                 executeTool (runtime = "node").                         *)
(* SpecRegistry observes the registry operations one at a time.  SpecStore *)
(* is DatabaseManager on its own.  SpecLifecycle is the start-up and the   *)
(* shutdown of both servers, followed in the Java server by the session of *)
(* Spec; SpecNode is its Node half.  SpecHandshake is the session with     *)
(* three messages of the handshake.  SpecFileSystem, SpecResources and     *)
(* SpecAnalysis are FileSystemTool.execute, ResourceManager and the        *)
(* analysis handlers of ToolsRegistry, each on its own.  SpecInput is the  *)
(* message loop of Spec reading a given input stream to its end.           *)
(***************************************************************************)
EXTENDS Integers, Sequences, FiniteSets, TLC

VARIABLES
    \* ---- StdioTransport
    isRunning,        \* StdioTransport.isRunning (volatile boolean)
    messageCount,     \* StdioTransport.messageCount (AtomicLong)
    loopPc,           \* position of runMessageLoop: "top" | "read" | "ended"
    tasks,            \* one entry per message read: the future of handleMessage
    stdout,           \* lines written by sendMessage, in order
    hookPc,           \* position of UniversalMCPServerApplication.shutdown
    \* ---- MCPProtocolHandler
    isInitialized,    \* MCPProtocolHandler.isInitialized (plain boolean)
    \* ---- ToolManager / ToolsRegistry
    runtime,          \* which implementation this run is: "java" | "node"
    tools,            \* the registry: name -> tool object
    enabled,          \* what each tool object's isEnabled() answers now
    executionCount,   \* ToolManager.executionCount (AtomicLong)
    errorCount,       \* ToolManager.errorCount (AtomicLong)
    calls,            \* executeTool invocations, one record per caller
    storeCalls,       \* calls that reached the document store (Node handlers)
    \* ---- what SpecRegistry observes of the registry
    order,            \* names in the order their keys were inserted: the key order
                      \* of ToolsRegistry's Map; ToolManager's ConcurrentHashMap
                      \* keeps none, there it is recorded by SpecRegistry's operations
    lastOp,           \* the registry operation called last, and what it returned
    \* ---- start-up and shutdown of the two servers, and the document store
    app,              \* UniversalMCPServerApplication.run: where it is, what is
                      \* left to register, StdioTransport.messageHandler
    node,             \* UniversalMCPServer (Node): run(), LLMManager, the requests
    store,            \* DatabaseManager: isConnected, client, db, the driver calls
    \* ---- components checked on their own
    fs,               \* FileSystemTool.execute: the arguments, how far it got
    resources,        \* ResourceManager: the registry, the counters, the last read
    analysis,         \* a ToolsRegistry analysis handler: its arguments, its calls
    stdin             \* the lines that the input stream still holds (SpecInput;
                      \* Spec draws what a read returns at the read)

vars == <<isRunning, messageCount, loopPc, tasks, stdout, hookPc, isInitialized,
          runtime, tools, enabled, executionCount, errorCount, calls, storeCalls,
          order, lastOp, app, node, store, fs, resources, analysis, stdin>>

transportVars == <<isRunning, messageCount, loopPc, tasks, stdout, hookPc>>
managerVars   == <<tools, enabled, executionCount, errorCount>>
dispatchOnly  == <<runtime, calls, storeCalls>>
registryView  == <<order, lastOp>>
lifecycleVars == <<app, node, store>>
componentVars == <<fs, resources, analysis, stdin>>

(***************************************************************************)
(* Bounds.                                                                 *)
(***************************************************************************)
MaxMessages == 2      \* messages read from stdin in one run
MaxCalls    == 2      \* concurrent executeTool callers in SpecDispatch

(***************************************************************************)
(* JSON-RPC error codes used by MCPProtocolHandler.                        *)
(***************************************************************************)
InvalidRequest       == -32600
MethodNotFound       == -32601
InternalError        == -32603
ServerNotInitialized == -32002

NullId == 0   \* JSON null in the "id" member (JsonNode id == null)

(***************************************************************************)
(* Tool objects.  A tool object is an MCPTool instance (Java) or a         *)
(* descriptor literal (Node); ver tells two objects of one name apart.     *)
(***************************************************************************)
ToolObject(n, v) == [name |-> n, ver |-> v]
NoTool == [name |-> "<null>", ver |-> 0]

\* The tools UniversalMCPServerApplication.registerUniversalTools registers
\* under the default configuration (database and LLM providers disabled).
UniversalTools == {ToolObject("calculator", 1), ToolObject("filesystem", 1)}

\* Tool objects a caller may hand to ToolManager.registerTool: a second
\* calculator object (re-registration) and one whose name is blank.
BlankTool == ToolObject(" ", 1)
JavaTools == UniversalTools \cup {ToolObject("calculator", 2), BlankTool}

\* Two of the descriptors ToolsRegistry.registerTools sets.
NodeTools == {ToolObject("echo", 1), ToolObject("db_insert", 1)}

\* Tools that take part in a start-up only: the OpenAITool the Java
\* application registers when that provider is enabled, and llm_generate,
\* which ToolsRegistry.registerLLMTools sets.
OpenAITool == ToolObject("openai", 1)
LlmGenerate == ToolObject("llm_generate", 1)

ToolObjects == JavaTools \cup NodeTools \cup {OpenAITool, LlmGenerate}

RegistryOf(objs) == [n \in {o.name : o \in objs} |-> CHOOSE o \in objs : o.name = n]

\* inputSchema.required of each tool.
Required(n) ==
    CASE n = "filesystem" -> {"action", "path"}
      [] n = "echo"       -> {"message"}
      [] n = "db_insert"  -> {"collection", "document"}
      [] OTHER            -> {}

(***************************************************************************)
(* ToolManager operations used by both specifications.                     *)
(***************************************************************************)
\* A lookup that falls back on some registered tool when the name is absent.
toolsGetFallback(reg, name) ==
    IF name \in DOMAIN reg THEN reg[name]
    ELSE IF DOMAIN reg # {} THEN reg[CHOOSE n \in DOMAIN reg : TRUE]
    ELSE NoTool

\* tools.get(toolName): the tool object, or null.
toolsGet(reg, name) == IF name \in DOMAIN reg THEN reg[name] ELSE NoTool

\* FileSystemTool.validateArguments: the first check that fails, or "ok".
validateArguments(args) ==
    IF "action" \notin args THEN "Falta el argumento 'action'"
    ELSE IF "path" \notin args THEN "Falta el argumento 'path'"
    ELSE "ok"

\* What a tool's handler can do with these arguments: "returned" (a result
\* with isError false), "returnedError" (a result with isError true, built by
\* the tool's own createErrorResponse) or "threw" with a message.
HandlerResult(kind, msg) == [kind |-> kind, msg |-> msg]

HandlerResults(name, args) ==
    IF name = "filesystem"
    THEN IF validateArguments(args) # "ok"
         THEN {HandlerResult("threw", validateArguments(args))}
         ELSE {HandlerResult("returned", "-"), HandlerResult("returnedError", "-"),
               HandlerResult("threw", "IOException")}
    ELSE IF name = "echo" THEN {HandlerResult("returned", "-")}
    ELSE IF name = "db_insert"
    THEN {HandlerResult("returned", "-"), HandlerResult("threw", "store unreachable")}
    ELSE {HandlerResult("returned", "-"), HandlerResult("returnedError", "-"),
          HandlerResult("threw", "tool failed")}

HandlerOutcomes(name, args) == {r.kind : r \in HandlerResults(name, args)}

(***************************************************************************)
(* Messages on stdin.  frame: "ok" (an object with jsonrpc "2.0"),         *)
(* "nojsonrpc" (an object without it) or "badjson" (readTree throws).      *)
(* hasId: the object has an "id" member; a request's id is taken to be     *)
(* its message number, so ids are unique.                                  *)
(***************************************************************************)
Methods == {"initialize", "initialized", "tools/list", "tools/call",
            "resources/list", "resources/read", "resources/updated", "ping",
            "notifications/initialized", "unknown/method"}

ArgsFull    == {"action", "path"}
ArgsPartial == {"path"}

Msg(f, h, m, t, a) == [frame |-> f, hasId |-> h, method |-> m, tool |-> t, args |-> a]

Messages ==
    {Msg("ok", h, m, "-", {}) : h \in BOOLEAN, m \in Methods \ {"tools/call"}}
    \cup {Msg("ok", h, "tools/call", "filesystem", a) :
              h \in BOOLEAN, a \in {ArgsFull, ArgsPartial}}
    \cup {Msg("ok", h, "tools/call", "nope", {}) : h \in BOOLEAN}
    \cup {Msg(f, h, "ping", "-", {}) : f \in {"nojsonrpc", "badjson"}, h \in BOOLEAN}

\* messageNode.get("id"): the id member, or null.
RequestId(k, m) == IF m.hasId THEN k ELSE NullId

(***************************************************************************)
(* Responses.  NullResponse is the Java null a handler returns for what    *)
(* it treats as a notification.                                            *)
(***************************************************************************)
\* code 0: the response has no "error" member.
NullResponse == [id |-> NullId, kind |-> "null", code |-> 0, body |-> "-"]

createErrorResponse(id, code) == [id |-> id, kind |-> "error", code |-> code, body |-> "-"]
createResult(id, body)        == [id |-> id, kind |-> "result", code |-> 0, body |-> body]

handleInitialize(id)  == createResult(id, "serverInfo")
\* A ping that is answered only once the session is initialized.
handlePingGuarded(id) ==
    IF isInitialized THEN createResult(id, "status:ok")
    ELSE createErrorResponse(id, ServerNotInitialized)

handlePing(id)        == createResult(id, "status:ok")
handleInitialized(id) == NullResponse
handleResourcesUpdated(id)        == NullResponse
handleNotificationInitialized(id) == NullResponse

\* tools/list without the isInitialized guard.
handleToolsListUnguarded(id, ready) == createResult(id, "tools")

\* The guard every listing and call handler starts with.
handleToolsList(id, ready) ==
    IF ~ready THEN createErrorResponse(id, ServerNotInitialized)
    ELSE createResult(id, "tools")

handleResourcesList(id, ready) ==
    IF ~ready THEN createErrorResponse(id, ServerNotInitialized)
    ELSE createResult(id, "resources")

handleResourcesRead(id, ready) ==
    IF ~ready THEN createErrorResponse(id, ServerNotInitialized)
    ELSE createResult(id, "contents")

\* ToolManager.executeTool run to its end by one thread: what the caller sees.
\* "notFound" | "disabled" | "threw" are the three throws, "returned" and
\* "returnedError" the tool's own result.
executeToolOutcomes(reg, en, name, args) ==
    LET tool == toolsGet(reg, name) IN
    IF tool = NoTool THEN {"notFound"}
    ELSE IF ~en[tool] THEN {"disabled"}
    ELSE HandlerOutcomes(name, args)

ToolCallFailed(exec) == exec \in {"notFound", "disabled", "threw"}

\* handleToolsCall after the isInitialized guard: wrap the result, or turn the
\* exception into an error response.
toolsCallResponse(id, exec) ==
    IF ToolCallFailed(exec) THEN createErrorResponse(id, InternalError)
    ELSE createResult(id, IF exec = "returnedError" THEN "isError:true" ELSE "isError:false")

handleToolsCall(id, ready, exec) ==
    IF ~ready THEN createErrorResponse(id, ServerNotInitialized)
    ELSE toolsCallResponse(id, exec)

\* A default branch that ignores the message instead of answering it.
handleUnknownMethodSilently(id) == NullResponse

\* The default branch of the switch of handleMessage.
handleUnknownMethod(id) == createErrorResponse(id, MethodNotFound)

\* The switch of handleMessage, for a message that parsed and carries jsonrpc.
dispatchMethod(m, id, ready, exec) ==
    CASE m.method = "initialize"                -> handleInitialize(id)
      [] m.method = "initialized"               -> handleInitialized(id)
      [] m.method = "tools/list"                -> handleToolsList(id, ready)
      [] m.method = "tools/call"                -> handleToolsCall(id, ready, exec)
      [] m.method = "resources/list"            -> handleResourcesList(id, ready)
      [] m.method = "resources/read"            -> handleResourcesRead(id, ready)
      [] m.method = "resources/updated"         -> handleResourcesUpdated(id)
      [] m.method = "ping"                      -> handlePing(id)
      [] m.method = "notifications/initialized" -> handleNotificationInitialized(id)
      [] OTHER                                  -> handleUnknownMethod(id)

handleMessageResponse(k, m, ready, exec) ==
    IF m.frame = "badjson" THEN createErrorResponse(NullId, InternalError)
    ELSE IF m.frame = "nojsonrpc" THEN createErrorResponse(NullId, InvalidRequest)
    ELSE dispatchMethod(m, RequestId(k, m), ready, exec)

\* A handler of notifications/initialized that also completes the handshake.
setsInitializedOnNotification(m) ==
    m.frame = "ok" /\ m.method \in {"initialized", "notifications/initialized"}

\* Which handler assigns isInitialized: handleInitialized, and no other.
setsInitialized(m) == m.frame = "ok" /\ m.method = "initialized"

\* isInitialized is a plain field written by one pool thread and read by
\* others with no synchronisation: a read after the write may still see false.
ObservedInitialized == IF isInitialized THEN {TRUE, FALSE} ELSE {FALSE}

\* Does handling m reach toolManager.executeTool?
ReachesDispatcher(m, ready) == m.frame = "ok" /\ m.method = "tools/call" /\ ready

(***************************************************************************)
(* The Java session.                                                       *)
(***************************************************************************)
Halted == hookPc = "exited"     \* the shutdown hook has returned: the JVM is gone

NewTask(m) == [msg |-> m, state |-> "running", response |-> NullResponse,
               exec |-> "none", readyWas |-> FALSE]

\* runMessageLoop, the while condition (the finally block when it is false).
LoopTop ==
    /\ ~Halted /\ loopPc = "top"
    /\ IF isRunning THEN loopPc' = "read" /\ UNCHANGED isRunning
                    ELSE loopPc' = "ended" /\ isRunning' = FALSE
    /\ UNCHANGED <<messageCount, tasks, stdout, hookPc, isInitialized>>
    /\ UNCHANGED <<managerVars, dispatchOnly, registryView, lifecycleVars, componentVars>>

\* readMessage returned a non-blank message: count it and hand it to
\* messageHandler.apply, which starts the task (supplyAsync).
ReadMessage(m) ==
    /\ ~Halted /\ loopPc = "read"
    /\ messageCount < MaxMessages
    /\ messageCount' = messageCount + 1
    /\ tasks' = Append(tasks, NewTask(m))
    /\ loopPc' = "top"
    /\ UNCHANGED <<isRunning, stdout, hookPc, isInitialized>>
    /\ UNCHANGED <<managerVars, dispatchOnly, registryView, lifecycleVars, componentVars>>

\* readMessage returned null (EOF): break, then the finally block.
ReadEOF ==
    /\ ~Halted /\ loopPc = "read"
    /\ loopPc' = "ended"
    /\ isRunning' = FALSE
    /\ UNCHANGED <<messageCount, tasks, stdout, hookPc, isInitialized>>
    /\ UNCHANGED <<managerVars, dispatchOnly, registryView, lifecycleVars, componentVars>>

\* The body of the supplier in handleMessage, run by a pool thread.
HandleMessage(k) ==
    /\ ~Halted
    /\ k \in DOMAIN tasks /\ tasks[k].state = "running"
    /\ LET m == tasks[k].msg IN
       \E ready \in ObservedInitialized :
       \E exec \in (IF ReachesDispatcher(m, ready)
                    THEN executeToolOutcomes(tools, enabled, m.tool, m.args)
                    ELSE {"none"}) :
          /\ tasks' = [tasks EXCEPT ![k] =
                         [@ EXCEPT !.state = "completed",
                                   !.response = handleMessageResponse(k, m, ready, exec),
                                   !.exec = exec,
                                   !.readyWas = isInitialized]]
          /\ isInitialized' = IF setsInitialized(m) THEN TRUE ELSE isInitialized
          /\ executionCount' = IF exec # "none" THEN executionCount + 1 ELSE executionCount
          /\ errorCount' = IF ToolCallFailed(exec) THEN errorCount + 1 ELSE errorCount
    /\ UNCHANGED <<isRunning, messageCount, loopPc, stdout, hookPc, tools, enabled>>
    /\ UNCHANGED <<dispatchOnly, registryView, lifecycleVars, componentVars>>

\* The thenAccept stage of runMessageLoop: sendMessage when the response is
\* neither null nor empty.
shouldSend(response) == response # NullResponse

ThenAccept(k) ==
    /\ ~Halted
    /\ k \in DOMAIN tasks /\ tasks[k].state = "completed"
    /\ tasks' = [tasks EXCEPT ![k].state = "done"]
    /\ stdout' = IF shouldSend(tasks[k].response)
                 THEN Append(stdout, [msgId |-> k, line |-> tasks[k].response])
                 ELSE stdout
    /\ UNCHANGED <<isRunning, messageCount, loopPc, hookPc, isInitialized>>
    /\ UNCHANGED <<managerVars, dispatchOnly, registryView, lifecycleVars, componentVars>>

\* The shutdown hook: transport.shutdown(), then toolManager.cleanup(), then
\* the remaining cleanups, after which the JVM exits.
ShutdownTransport ==
    /\ hookPc = "idle"
    /\ isRunning' = FALSE
    /\ hookPc' = "transportDown"
    /\ UNCHANGED <<messageCount, loopPc, tasks, stdout, isInitialized>>
    /\ UNCHANGED <<managerVars, dispatchOnly, registryView, lifecycleVars, componentVars>>

cleanup(reg) == << >>

\* The key order of an insertion-ordered map after the registry changed:
\* removed keys leave, a new key goes to the end, a replaced key stays.
insertionOrder(ord, reg) ==
    LET kept  == SelectSeq(ord, LAMBDA n : n \in DOMAIN reg)
        added == DOMAIN reg \ {ord[i] : i \in DOMAIN ord}
    IN IF added = {} THEN kept ELSE Append(kept, CHOOSE n \in added : TRUE)

ShutdownCleanup ==
    /\ hookPc = "transportDown"
    /\ tools' = cleanup(tools)
    /\ hookPc' = "toolsCleared"
    /\ UNCHANGED <<isRunning, messageCount, loopPc, tasks, stdout, isInitialized>>
    /\ UNCHANGED <<enabled, executionCount, errorCount, dispatchOnly, registryView, lifecycleVars, componentVars>>

ShutdownExit ==
    /\ hookPc = "toolsCleared"
    /\ hookPc' = "exited"
    /\ UNCHANGED <<isRunning, messageCount, loopPc, tasks, stdout, isInitialized>>
    /\ UNCHANGED <<managerVars, dispatchOnly, registryView, lifecycleVars, componentVars>>

SessionUnchanged == UNCHANGED <<transportVars, isInitialized, lifecycleVars, componentVars>>
CallUnchanged    == SessionUnchanged /\ UNCHANGED registryView

(***************************************************************************)
(* The dispatcher on its own.  Every access to shared state is a step:     *)
(* ToolManager's callers are threads (executeToolAsync, the handleMessage  *)
(* tasks); ToolsRegistry's callers are promises on one event loop, which   *)
(* run without interruption up to the await of the handler.                *)
(***************************************************************************)
Callers == 1..MaxCalls

NoOutcome == [kind |-> "-", msg |-> "-"]
Outcome(kind, msg) == [kind |-> kind, msg |-> msg]

NewCall == [pc |-> "idle", name |-> "-", args |-> {}, tool |-> NoTool,
            outcome |-> NoOutcome, thrown |-> "-",
            handlerRuns |-> 0, handlerArgs |-> {}, handlerResult |-> "-", errIncs |-> 0,
            absentAtGet |-> FALSE, disabledAtCheck |-> FALSE, storeCalls |-> 0]

\* (name, arguments) pairs callers use.
JavaCallInputs == {<<"calculator", {}>>, <<"filesystem", ArgsFull>>,
                   <<"filesystem", ArgsPartial>>}
NodeCallInputs == {<<"echo", {"message"}>>, <<"echo", {}>>,
                   <<"db_insert", {"collection", "document"}>>,
                   <<"db_insert", {"collection"}>>, <<"nope", {}>>}

\* No registry operation has been observed yet.
NoListing == [known |-> FALSE, listing |-> << >>]
NoOp == [op |-> "none", arg |-> "-", result |-> "-", before |-> << >>,
         orderWas |-> << >>, prev |-> NoListing, tick |-> FALSE]

\* A remove that empties the registry.
removeClearing(reg, name) == << >>

\* A replacement done as remove-then-insert whose first half is visible: the
\* name is absent from the registry until the insert happens.
putViaRemove(reg, tool) ==
    IF tool.name \in DOMAIN reg
    THEN [n \in DOMAIN reg \ {tool.name} |-> reg[n]]
    ELSE [n \in DOMAIN reg \cup {tool.name} |-> IF n = tool.name THEN tool ELSE reg[n]]

\* Map.put / Map.remove on the registry.
put(reg, tool) ==
    [n \in DOMAIN reg \cup {tool.name} |-> IF n = tool.name THEN tool ELSE reg[n]]
remove(reg, name) == [n \in DOMAIN reg \ {name} |-> reg[n]]

IsBlank(name) == name \in {"", " "}      \* name.trim().isEmpty()

\* ToolManager.registerTool: the registry afterwards.  The two throws and
\* the skip of a disabled tool leave it as it was.
registerTool(reg, en, tool) ==
    IF tool = NoTool THEN reg
    ELSE IF IsBlank(tool.name) THEN reg
    ELSE IF ~en[tool] THEN reg
    ELSE put(reg, tool)

RegisterTool(tool) ==
    /\ runtime = "java"
    /\ tools' = registerTool(tools, enabled, tool)
    /\ UNCHANGED <<enabled, executionCount, errorCount, dispatchOnly>>
    /\ CallUnchanged

UnregisterTool(name) ==
    /\ runtime = "java"
    /\ tools' = remove(tools, name)
    /\ UNCHANGED <<enabled, executionCount, errorCount, dispatchOnly>>
    /\ CallUnchanged

Cleanup ==
    /\ runtime = "java"
    /\ tools' = cleanup(tools)
    /\ UNCHANGED <<enabled, executionCount, errorCount, dispatchOnly>>
    /\ CallUnchanged

\* MCPTool.isEnabled() is the implementation's to answer; FileSystemTool
\* keeps the default (always true), other tools may change their answer.
SetEnabled(tool, b) ==
    /\ runtime = "java"
    /\ tool.name = "calculator"
    /\ enabled' = [enabled EXCEPT ![tool] = b]
    /\ UNCHANGED <<tools, executionCount, errorCount, dispatchOnly>>
    /\ CallUnchanged

\* A read-modify-write that is not atomic: the update is lost when another
\* caller has written the counter between this caller's read and write.
incrementLosingUpdates(counter) ==
    IF \E d \in Callers : calls[d].pc \in {"get", "errNotFound", "errDisabled", "errThrew"}
    THEN counter ELSE counter + 1

\* AtomicLong.incrementAndGet.
incrementAndGet(counter) == counter + 1

\* executeTool, line 126: count the execution.
Begin(c, name, args) ==
    /\ runtime = "java"
    /\ calls[c].pc = "idle"
    /\ executionCount' = incrementAndGet(executionCount)
    /\ calls' = [calls EXCEPT ![c] = [@ EXCEPT !.pc = "get", !.name = name, !.args = args]]
    /\ UNCHANGED <<tools, enabled, errorCount, runtime, storeCalls>>
    /\ CallUnchanged

\* executeTool, lines 130-131: tools.get and the null test.
Get(c) ==
    /\ runtime = "java"
    /\ calls[c].pc = "get"
    /\ LET tool == toolsGet(tools, calls[c].name) IN
       calls' = [calls EXCEPT ![c] =
                   [@ EXCEPT !.tool = tool,
                             !.absentAtGet = calls[c].name \notin DOMAIN tools,
                             !.pc = IF tool = NoTool THEN "errNotFound" ELSE "check"]]
    /\ UNCHANGED <<managerVars, runtime, storeCalls>>
    /\ CallUnchanged

\* A dispatcher that trusts the registration-time test and never re-tests.
passesEnabledCheckAlways(en, tool) == TRUE

\* executeTool, line 136: the isEnabled test on the object found.
passesEnabledCheck(en, tool) == en[tool]

CheckEnabled(c) ==
    /\ runtime = "java"
    /\ calls[c].pc = "check"
    /\ calls' = [calls EXCEPT ![c] =
                   [@ EXCEPT !.disabledAtCheck = ~enabled[calls[c].tool],
                             !.pc = IF passesEnabledCheck(enabled, calls[c].tool)
                                    THEN "execute" ELSE "errDisabled"]]
    /\ UNCHANGED <<managerVars, runtime, storeCalls>>
    /\ CallUnchanged

\* A wrapper that drops the handler's message.
wrapHandlerErrorGeneric(name, msg) == Outcome("ToolExecutionFailed", "-")

\* executeTool, line 155: the exception thrown for a handler that threw.
wrapHandlerError(name, msg) == Outcome("ToolExecutionFailed", msg)

\* A dispatcher that fills in a default for an argument the caller left out.
passArgumentsDefaulted(args) == args \cup {"action"}

\* A dispatcher that keeps the arguments of the call in a field shared by
\* all callers: the handler is given what the latest caller stored there.
passArgumentsShared(args) ==
    IF \E d \in Callers : calls[d].pc \in {"get", "check", "execute"} /\ calls[d].args # args
    THEN calls[CHOOSE d \in Callers :
                 calls[d].pc \in {"get", "check", "execute"} /\ calls[d].args # args].args
    ELSE args

\* tool.execute(arguments, mapper) / tool.handler(args): what the handler is given.
passArguments(args) == args

\* A dispatcher that runs the handler again when it threw.
afterHandlerRetrying(kind) == IF kind = "threw" THEN "execute" ELSE "done"

\* executeTool, lines 150-155: return the result, or go to the catch block.
afterHandler(kind) == IF kind = "threw" THEN "errThrew" ELSE "done"

\* executeTool, lines 141-150: tool.execute(arguments, mapper).
Execute(c) ==
    /\ runtime = "java"
    /\ calls[c].pc = "execute"
    /\ \E r \in HandlerResults(calls[c].tool.name, passArguments(calls[c].args)) :
         calls' = [calls EXCEPT ![c] =
                     [@ EXCEPT !.handlerRuns = @ + 1,
                               !.handlerArgs = passArguments(calls[c].args),
                               !.handlerResult = r.kind,
                               !.thrown = r.msg,
                               !.outcome = IF r.kind = "threw" THEN NoOutcome
                                           ELSE Outcome(r.kind, "-"),
                               !.pc = afterHandler(r.kind)]]
    /\ UNCHANGED <<managerVars, runtime, storeCalls>>
    /\ CallUnchanged

\* executeTool, lines 132-133, 137-138, 153-155: count the error and throw.
failure(call) ==
    CASE call.pc = "errNotFound" -> Outcome("ToolNotFound", call.name)
      [] call.pc = "errDisabled" -> Outcome("ToolDisabled", call.name)
      [] OTHER                   -> wrapHandlerError(call.name, call.thrown)

Throw(c) ==
    /\ runtime = "java"
    /\ calls[c].pc \in {"errNotFound", "errDisabled", "errThrew"}
    /\ errorCount' = incrementAndGet(errorCount)
    /\ calls' = [calls EXCEPT ![c] =
                   [@ EXCEPT !.errIncs = @ + 1, !.outcome = failure(calls[c]), !.pc = "done"]]
    /\ UNCHANGED <<tools, enabled, executionCount, runtime, storeCalls>>
    /\ CallUnchanged

\* ToolsRegistry.registerTools: every descriptor is set in one synchronous run.
NodeRegisterTools ==
    /\ runtime = "node"
    /\ tools' = RegistryOf(NodeTools)
    /\ order' = <<"echo", "db_insert">>
    /\ UNCHANGED <<enabled, executionCount, errorCount, dispatchOnly, lastOp>>
    /\ SessionUnchanged

\* Does invoking the handler call the document store at once?  db_insert's
\* handler starts with databaseManager.insertOne(args.collection, args.document).
CallsStore(name) == name = "db_insert"

\* ToolsRegistry.executeTool up to the await: has, get, handler(args).
NodeExecuteTool(c, name, args) ==
    /\ runtime = "node"
    /\ calls[c].pc = "idle"
    /\ LET tool == toolsGet(tools, name) IN
       /\ calls' = [calls EXCEPT ![c] =
                      IF tool = NoTool
                      THEN [@ EXCEPT !.name = name, !.args = args, !.absentAtGet = TRUE,
                                     !.outcome = Outcome("ToolNotFound", name),
                                     !.pc = "done"]
                      ELSE [@ EXCEPT !.name = name, !.args = args, !.tool = tool,
                                     !.absentAtGet = name \notin DOMAIN tools,
                                     !.handlerRuns = @ + 1,
                                     !.handlerArgs = passArguments(args),
                                     !.storeCalls = IF CallsStore(name) THEN @ + 1 ELSE @,
                                     !.pc = "awaiting"]]
       /\ storeCalls' = IF tool # NoTool /\ CallsStore(name)
                        THEN storeCalls + 1 ELSE storeCalls
    /\ UNCHANGED <<managerVars, runtime>>
    /\ CallUnchanged

\* ToolsRegistry.executeTool after the await: return the result, or log and
\* rethrow the handler's error.
NodeSettle(c) ==
    /\ runtime = "node"
    /\ calls[c].pc = "awaiting"
    /\ \E r \in HandlerResults(calls[c].name, calls[c].handlerArgs) :
         calls' = [calls EXCEPT ![c] =
                     [@ EXCEPT !.thrown = r.msg,
                               !.handlerResult = r.kind,
                               !.outcome = IF r.kind = "threw"
                                           THEN Outcome("ToolExecutionFailed", r.msg)
                                           ELSE Outcome(r.kind, "-"),
                               !.pc = "done"]]
    /\ UNCHANGED <<managerVars, runtime, storeCalls>>
    /\ CallUnchanged

\* UniversalMCPServerApplication once startServer has started the transport:
\* nothing left to register, the message handler set, no exit.
AppServing == [pc |-> "serving", plan |-> << >>, messageHandler |-> TRUE,
               exited |-> FALSE, exitCode |-> 0]

\* No llm_generate call has been made.
NoGeneration == [called |-> FALSE, args |-> [prompt |-> "p"], outcome |-> "-",
                 provider |-> "-", temperature |-> 0, maxTokens |-> 0]

\* No initialize request has been answered.
NoAdvertisement == [answered |-> FALSE, capabilities |-> {}]

\* A run in which the Node server does not exist.
NodeAbsent == [step |-> 0, env |-> [providers |-> {}, dbUp |-> FALSE],
               capabilities |-> {}, requestHandlers |-> {},
               providers |-> {}, initialized |-> FALSE,
               serverConnected |-> FALSE, served |-> 0,
               advertised |-> NoAdvertisement, generation |-> NoGeneration,
               listedDuringStartup |-> FALSE,
               signalled |-> FALSE, exited |-> FALSE, exitCode |-> 0]

\* new DatabaseManager(): client and db null, isConnected false.  driverCalls
\* counts the calls the operations made on the driver, last is the operation
\* called last and how it ended.
NoStoreOp == [op |-> "none", outcome |-> "-"]
NewStore == [isConnected |-> FALSE, client |-> FALSE, db |-> FALSE,
             driverCalls |-> 0, last |-> NoStoreOp]

\* No FileSystemTool.execute call is under way.
NoFileSystemCall == [pc |-> "none"]

\* new ResourceManager() before registerDefaultResources(): nothing registered,
\* both counters 0, nothing read yet.
\* Its resource objects are available and ask for no authentication.
NoRead == [asked |-> "-", uri |-> "-", message |-> "-", contentRead |-> FALSE]
NewResourceManager ==
    [registered |-> {}, accessCount |-> 0, errorCount |-> 0, last |-> NoRead,
     available |-> [u \in {"server://info", "database://status"} |-> TRUE],
     requiresAuth |-> [u \in {"server://info", "database://status"} |-> FALSE]]

\* No analysis handler of ToolsRegistry is under way.
NoAnalysis == [pc |-> "none"]

\* An input stream that holds no line: lines is what the stream holds from
\* its start to its end, pos is how many of them have been read.
NoInput == [lines |-> << >>, pos |-> 0]

\* After new ToolManager() / new ToolsRegistry(...): an empty registry.
InitDispatch ==
    /\ isRunning = FALSE
    /\ messageCount = 0
    /\ loopPc = "top"
    /\ tasks = << >>
    /\ stdout = << >>
    /\ hookPc = "idle"
    /\ isInitialized = FALSE
    /\ runtime \in {"java", "node"}
    /\ tools = << >>
    /\ enabled = [o \in ToolObjects |-> TRUE]
    /\ executionCount = 0
    /\ errorCount = 0
    /\ calls = [c \in Callers |-> NewCall]
    /\ storeCalls = 0
    /\ order = << >>
    /\ lastOp = NoOp
    /\ app = AppServing
    /\ node = NodeAbsent
    /\ store = NewStore
    /\ fs = NoFileSystemCall
    /\ resources = NewResourceManager
    /\ analysis = NoAnalysis
    /\ stdin = NoInput

NextDispatch ==
    \/ \E tool \in JavaTools \cup {NoTool} : RegisterTool(tool)
    \/ \E name \in {"calculator", "filesystem"} : UnregisterTool(name)
    \/ Cleanup
    \/ \E tool \in JavaTools, b \in BOOLEAN : SetEnabled(tool, b)
    \/ \E c \in Callers, in \in JavaCallInputs : Begin(c, in[1], in[2])
    \/ \E c \in Callers : Get(c)
    \/ \E c \in Callers : CheckEnabled(c)
    \/ \E c \in Callers : Execute(c)
    \/ \E c \in Callers : Throw(c)
    \/ NodeRegisterTools
    \/ \E c \in Callers, in \in NodeCallInputs : NodeExecuteTool(c, in[1], in[2])
    \/ \E c \in Callers : NodeSettle(c)

SpecDispatch == InitDispatch /\ [][NextDispatch]_vars

\* Every caller is a thread of the common pool (or a promise of the event
\* loop): it is scheduled again and again, and a handler that has been
\* started returns or throws.
CallProgress(c) ==
    Get(c) \/ CheckEnabled(c) \/ Execute(c) \/ Throw(c) \/ NodeSettle(c)

SpecDispatchFair ==
    SpecDispatch /\ \A c \in Callers : WF_vars(CallProgress(c))

(***************************************************************************)
(* The registry on its own: registerTool, unregisterTool, cleanup, the     *)
(* listing, the count and the lookup, each observed through lastOp.        *)
(***************************************************************************)
\* The bucket of a name in ConcurrentHashMap's table of 16:
\* spread(name.hashCode()) & 15.
bucket(name) ==
    CASE name = "calculator" -> 1
      [] name = "filesystem" -> 14
      [] OTHER               -> 0

\* tools.values() of the ConcurrentHashMap: a traversal of the table, bucket
\* after bucket, whatever the order of insertion.
RECURSIVE valuesInTableOrder(_, _)
valuesInTableOrder(reg, names) ==
    IF names = {} THEN << >>
    ELSE LET n == CHOOSE x \in names : \A y \in names : bucket(x) <= bucket(y)
         IN <<reg[n]>> \o valuesInTableOrder(reg, names \ {n})

\* ToolManager.getToolsListAsJson: one entry per value of the map.
getToolsListAsJson(reg) == valuesInTableOrder(reg, DOMAIN reg)

\* ToolsRegistry.getAvailableTools: Array.from(this.tools.values()), a Map's
\* values in insertion order.
getAvailableTools(reg, ord) == [i \in DOMAIN ord |-> reg[ord[i]]]

\* ToolManager.getToolCount: the values that answer isEnabled().
getToolCount(reg, en) == Cardinality({n \in DOMAIN reg : en[reg[n]]})

\* A lookup that answers with whatever tool it finds first.
getToolInfoAny(reg, name) ==
    IF DOMAIN reg = {} THEN NoTool ELSE reg[CHOOSE n \in DOMAIN reg : TRUE]

\* getToolInfo: the tool found under the name, or null.
getToolInfo(reg, name) == IF name \in DOMAIN reg THEN reg[name] ELSE NoTool

\* What registerTool does with its argument: the two throws, the skip of a
\* tool that answers isEnabled() false, or the put.
registerToolResult(en, tool) ==
    IF tool = NoTool THEN "InvalidDescriptor"
    ELSE IF IsBlank(tool.name) THEN "InvalidDescriptor"
    ELSE IF ~en[tool] THEN "skipped"
    ELSE "registered"

Observe(op, arg, result, prev) ==
    [op |-> op, arg |-> arg, result |-> result, before |-> tools,
     orderWas |-> order, prev |-> prev, tick |-> ~lastOp.tick]

\* The listing of the last tools/list, as long as no register, unregister or
\* cleanup has been called since.
PrevListing ==
    IF lastOp.op = "list" THEN [known |-> TRUE, listing |-> lastOp.result]
    ELSE IF lastOp.op \in {"lookup", "count", "toggle"} THEN lastOp.prev
    ELSE NoListing

RegistryUnchanged ==
    UNCHANGED <<enabled, executionCount, errorCount, dispatchOnly>> /\ SessionUnchanged

RegistryRegister(tool) ==
    /\ runtime = "java"
    /\ tools' = registerTool(tools, enabled, tool)
    /\ order' = insertionOrder(order, tools')
    /\ lastOp' = Observe("register", tool, registerToolResult(enabled, tool), NoListing)
    /\ RegistryUnchanged

RegistryUnregister(name) ==
    /\ runtime = "java"
    /\ tools' = remove(tools, name)
    /\ order' = insertionOrder(order, tools')
    /\ lastOp' = Observe("unregister", name, "returned", NoListing)
    /\ RegistryUnchanged

RegistryCleanup ==
    /\ runtime = "java"
    /\ tools' = cleanup(tools)
    /\ order' = insertionOrder(order, tools')
    /\ lastOp' = Observe("cleanup", "-", "returned", NoListing)
    /\ RegistryUnchanged

ListTools ==
    /\ lastOp' = Observe("list", "-",
                         IF runtime = "java" THEN getToolsListAsJson(tools)
                         ELSE getAvailableTools(tools, order),
                         PrevListing)
    /\ UNCHANGED <<tools, order>>
    /\ RegistryUnchanged

CountTools ==
    /\ runtime = "java"
    /\ lastOp' = Observe("count", "-", getToolCount(tools, enabled), PrevListing)
    /\ UNCHANGED <<tools, order>>
    /\ RegistryUnchanged

Lookup(name) ==
    /\ lastOp' = Observe("lookup", name, getToolInfo(tools, name), PrevListing)
    /\ UNCHANGED <<tools, order>>
    /\ RegistryUnchanged

LookupNames == {"calculator", "filesystem", "echo", "nope"}

\* hasToolEnabled: registered, and the object answers isEnabled().
hasToolEnabled(reg, en, name) == name \in DOMAIN reg /\ en[reg[name]]

\* A toggle that does set the status of the tool it finds.
toggleToolStatusApplying(reg, en, name, b) ==
    IF name \notin DOMAIN reg THEN [result |-> FALSE, enabled |-> en]
    ELSE [result |-> TRUE, enabled |-> [en EXCEPT ![reg[name]] = b]]

\* toggleToolStatus: the value returned and what isEnabled() answers
\* afterwards.  The method looks the name up and logs; it calls nothing on
\* the tool.
toggleToolStatus(reg, en, name, b) ==
    IF name \notin DOMAIN reg THEN [result |-> FALSE, enabled |-> en]
    ELSE [result |-> TRUE, enabled |-> en]

ToggleToolStatus(name, b) ==
    /\ runtime = "java"
    /\ enabled' = toggleToolStatus(tools, enabled, name, b).enabled
    /\ lastOp' = Observe("toggle", name, toggleToolStatus(tools, enabled, name, b).result,
                         PrevListing)
    /\ UNCHANGED <<tools, order, executionCount, errorCount, dispatchOnly>>
    /\ SessionUnchanged

InitRegistry == InitDispatch

NextRegistry ==
    \/ \E tool \in JavaTools \cup {NoTool} : RegistryRegister(tool)
    \/ \E name \in {"calculator", "filesystem"} : RegistryUnregister(name)
    \/ RegistryCleanup
    \/ \E tool \in JavaTools, b \in BOOLEAN : SetEnabled(tool, b)
    \/ NodeRegisterTools
    \/ ListTools
    \/ CountTools
    \/ \E name \in LookupNames : Lookup(name)
    \/ \E name \in LookupNames, b \in BOOLEAN : ToggleToolStatus(name, b)

SpecRegistry == InitRegistry /\ [][NextRegistry]_vars

\* After initializeComponents, setupMcpServer and transport.start().
Init ==
    /\ isRunning = TRUE
    /\ messageCount = 0
    /\ loopPc = "top"
    /\ tasks = << >>
    /\ stdout = << >>
    /\ hookPc = "idle"
    /\ isInitialized = FALSE
    /\ runtime = "java"
    /\ tools = RegistryOf(UniversalTools)
    /\ enabled = [o \in ToolObjects |-> TRUE]
    /\ executionCount = 0
    /\ errorCount = 0
    /\ calls = << >>
    /\ storeCalls = 0
    /\ order = << >>
    /\ lastOp = NoOp
    /\ app = AppServing
    /\ node = NodeAbsent
    /\ store = NewStore
    /\ fs = NoFileSystemCall
    /\ resources = NewResourceManager
    /\ analysis = NoAnalysis
    /\ stdin = NoInput

Next ==
    \/ LoopTop
    \/ \E m \in Messages : ReadMessage(m)
    \/ ReadEOF
    \/ \E k \in 1..MaxMessages : HandleMessage(k)
    \/ \E k \in 1..MaxMessages : ThenAccept(k)
    \/ ShutdownTransport
    \/ ShutdownCleanup
    \/ ShutdownExit

Spec == Init /\ [][Next]_vars

(***************************************************************************)
(* The handshake on its own: three messages, so that a listing or a call   *)
(* can follow two messages of the handshake, taken from the methods that   *)
(* take part in it.  The session of Spec without the shutdown hook.        *)
(***************************************************************************)
MaxHandshake == 3     \* messages read in one run of SpecHandshake

HandshakeMessages ==
    {Msg("ok", TRUE, "initialize", "-", {}),
     Msg("ok", FALSE, "notifications/initialized", "-", {}),
     Msg("ok", FALSE, "initialized", "-", {}),
     Msg("ok", FALSE, "resources/updated", "-", {}),
     Msg("ok", TRUE, "ping", "-", {}),
     Msg("ok", TRUE, "unknown/method", "-", {}),
     Msg("ok", TRUE, "tools/list", "-", {}),
     Msg("ok", TRUE, "tools/call", "filesystem", ArgsFull)}

\* runMessageLoop: a message read, as ReadMessage, counted to MaxHandshake.
ReadHandshake(m) ==
    /\ ~Halted /\ loopPc = "read"
    /\ messageCount < MaxHandshake
    /\ messageCount' = messageCount + 1
    /\ tasks' = Append(tasks, NewTask(m))
    /\ loopPc' = "top"
    /\ UNCHANGED <<isRunning, stdout, hookPc, isInitialized>>
    /\ UNCHANGED <<managerVars, dispatchOnly, registryView, lifecycleVars, componentVars>>

NextHandshake ==
    \/ LoopTop
    \/ \E m \in HandshakeMessages : ReadHandshake(m)
    \/ ReadEOF
    \/ \E k \in 1..MaxHandshake : HandleMessage(k)
    \/ \E k \in 1..MaxHandshake : ThenAccept(k)

SpecHandshake == Init /\ [][NextHandshake]_vars

(***************************************************************************)
(* The document store manager on its own: DatabaseManager's connect,       *)
(* disconnect and its fourteen operations, called in any order.            *)
(***************************************************************************)
MaxDriverCalls == 2     \* driver calls counted in one run

StoreOps == {"find", "findOne", "insertOne", "insertMany", "updateOne", "updateMany",
             "deleteOne", "deleteMany", "countDocuments", "aggregate",
             "getCollectionSchema", "listCollections", "runCommand", "getDatabaseStats"}

\* An operation set in which getDatabaseStats goes to the driver unchecked.
checksConnectionExceptStats(op) == op # "getDatabaseStats"

\* Does the operation start with this.ensureConnected()?  All fourteen do.
checksConnection(op) == op \in StoreOps

\* ensureConnected: throws when isConnected is false.
ensureConnected(st) == st.isConnected

\* connect.  "ok": both clients connect.  "clientFails": client.connect()
\* rejects, after this.client was assigned.  "mongooseFails": mongoose.connect
\* rejects, after this.db was assigned.  The two failures are rethrown.
ConnectOutcomes == {"ok", "clientFails", "mongooseFails"}

connect(st, outcome) ==
    CASE outcome = "ok" ->
            [st EXCEPT !.client = TRUE, !.db = TRUE, !.isConnected = TRUE,
                       !.last = [op |-> "connect", outcome |-> "ok"]]
      [] outcome = "clientFails" ->
            [st EXCEPT !.client = TRUE,
                       !.last = [op |-> "connect", outcome |-> "threw"]]
      [] OTHER ->
            [st EXCEPT !.client = TRUE, !.db = TRUE,
                       !.last = [op |-> "connect", outcome |-> "threw"]]

\* disconnect: isConnected = false once both closes returned; an error of
\* either close is logged and swallowed, isConnected stays as it was.
disconnect(st, closes) ==
    IF closes THEN [st EXCEPT !.isConnected = FALSE,
                              !.last = [op |-> "disconnect", outcome |-> "ok"]]
    ELSE [st EXCEPT !.last = [op |-> "disconnect", outcome |-> "logged"]]

\* One of the fourteen operations: ensureConnected, then the driver call on
\* this.db, whose error is logged and rethrown.
storeOperation(st, op, driverOk) ==
    IF checksConnection(op) /\ ~ensureConnected(st)
    THEN [st EXCEPT !.last = [op |-> op, outcome |-> "StoreUnavailable"]]
    ELSE IF ~st.db
    THEN [st EXCEPT !.last = [op |-> op, outcome |-> "TypeError"]]
    ELSE [st EXCEPT !.driverCalls = @ + 1,
                    !.last = [op |-> op, outcome |-> IF driverOk THEN "ok" ELSE "driverError"]]

StoreUnchanged ==
    UNCHANGED <<transportVars, isInitialized, managerVars, dispatchOnly, registryView,
                app, node, componentVars>>

StoreConnect(outcome) ==
    /\ store' = connect(store, outcome)
    /\ StoreUnchanged

StoreDisconnect(closes) ==
    /\ store' = disconnect(store, closes)
    /\ StoreUnchanged

StoreOperation(op, driverOk) ==
    /\ store.driverCalls < MaxDriverCalls
    /\ store' = storeOperation(store, op, driverOk)
    /\ StoreUnchanged

\* After new DatabaseManager(), in the Node process.
InitStore == InitDispatch /\ runtime = "node"

NextStore ==
    \/ \E outcome \in ConnectOutcomes : StoreConnect(outcome)
    \/ \E closes \in BOOLEAN : StoreDisconnect(closes)
    \/ \E op \in StoreOps, driverOk \in BOOLEAN : StoreOperation(op, driverOk)

SpecStore == InitStore /\ [][NextStore]_vars

(***************************************************************************)
(* Start-up and shutdown.  Java: UniversalMCPServerApplication.run         *)
(* (initializeComponents, setupMcpServer, startServer), then the session   *)
(* of Spec.  Node: the UniversalMCPServer constructor, run() with its      *)
(* awaits, the requests served once the transport is connected, and the    *)
(* signal handlers.                                                        *)
(***************************************************************************)
MaxRequests == 2      \* requests the Node server serves in one run

\* The tool objects registerUniversalTools hands to registerTool, in its
\* order.  First plan: database and LLM providers disabled.  Second plan:
\* database and OpenAI enabled; DatabaseTool is not among the sources, and
\* here its getName() answers a blank name.
RegistrationPlans ==
    { <<ToolObject("calculator", 1), ToolObject("filesystem", 1)>>,
      <<ToolObject("calculator", 1), ToolObject("filesystem", 1), BlankTool, OpenAITool>> }

\* registerTool, lines 60-67: the two IllegalArgumentExceptions.
registerToolThrows(tool) == tool = NoTool \/ IsBlank(tool.name)

AppStarting(plan) == [pc |-> "registerUniversalTools", plan |-> plan,
                      messageHandler |-> FALSE, exited |-> FALSE, exitCode |-> 0]
AppAbsent == [pc |-> "absent", plan |-> << >>, messageHandler |-> FALSE,
              exited |-> FALSE, exitCode |-> 0]

\* run's catch block: System.exit(1).
systemExit(a) == [a EXCEPT !.pc = "exited", !.exited = TRUE, !.exitCode = 1]

AppAt(pc) == runtime = "java" /\ ~Halted /\ ~app.exited /\ app.pc = pc

AppUnchanged == UNCHANGED <<dispatchOnly, registryView, node, store, componentVars>>

\* registerUniversalTools: one toolManager.registerTool(...).  Nothing
\* catches what registerTool throws before run's catch block.
AppRegisterTool ==
    /\ AppAt("registerUniversalTools") /\ app.plan # << >>
    /\ LET tool == Head(app.plan) IN
       IF registerToolThrows(tool)
       THEN /\ app' = systemExit(app)
            /\ UNCHANGED tools
       ELSE /\ tools' = registerTool(tools, enabled, tool)
            /\ app' = [app EXCEPT !.plan = Tail(@)]
    /\ UNCHANGED <<transportVars, isInitialized, enabled, executionCount, errorCount>>
    /\ AppUnchanged

\* setupMcpServer: transport.setMessageHandler(protocolHandler::handleMessage).
AppSetupMcpServer ==
    /\ AppAt("registerUniversalTools") /\ app.plan = << >>
    /\ app' = [app EXCEPT !.messageHandler = TRUE, !.pc = "startServer"]
    /\ UNCHANGED <<transportVars, isInitialized, managerVars>>
    /\ AppUnchanged

\* startServer: Runtime.getRuntime().addShutdownHook(new Thread(this::shutdown)).
AppAddShutdownHook ==
    /\ AppAt("startServer")
    /\ hookPc' = "idle"
    /\ app' = [app EXCEPT !.pc = "transport.start"]
    /\ UNCHANGED <<isRunning, messageCount, loopPc, tasks, stdout, isInitialized, managerVars>>
    /\ AppUnchanged

\* A start() that does not look at the handler.
startUnchecked(messageHandler) == TRUE

\* StdioTransport.start, lines 687-689: does it go on to start the loop?
start(messageHandler) == messageHandler

\* startServer: transport.start(); its IllegalStateException ends in run's
\* catch block.
AppTransportStart ==
    /\ AppAt("transport.start")
    /\ IF start(app.messageHandler)
       THEN /\ isRunning' = TRUE
            /\ loopPc' = "top"
            /\ app' = [app EXCEPT !.pc = "serving"]
       ELSE /\ app' = systemExit(app)
            /\ UNCHANGED <<isRunning, loopPc>>
    /\ UNCHANGED <<messageCount, tasks, stdout, hookPc, isInitialized, managerVars>>
    /\ AppUnchanged

\* ---- Node
NodeEnvs == {[providers |-> ps, dbUp |-> up] :
                ps \in {{}, {"openai"}, {"gemini"}}, up \in BOOLEAN}

\* The UniversalMCPServer constructor: the capabilities given to new Server,
\* and the request handlers setupToolHandlers sets.
NodeConstructed(env) ==
    [NodeAbsent EXCEPT !.step = 1, !.env = env,
                       !.capabilities = {"tools", "resources", "prompts"},
                       !.requestHandlers = {"tools/list", "tools/call"}]

\* The methods of each capability.
CapabilityMethods(cap) ==
    CASE cap = "tools"     -> {"tools/list", "tools/call"}
      [] cap = "resources" -> {"resources/list", "resources/read"}
      [] cap = "prompts"   -> {"prompts/list", "prompts/get"}
      [] OTHER             -> {"logging/setLevel"}

\* The descriptors registerTools sets that this model invokes, in the order
\* of registerBasicTools, registerLLMTools, registerDatabaseTools.
NodeLifecycleTools == NodeTools \cup {LlmGenerate}
NodeLifecycleOrder == <<"echo", "llm_generate", "db_insert">>

\* A run() that connects the transport before it initializes.
nodeRunOrderConnectFirst ==
    <<"server.connect", "dbManager.connect", "llmManager.initialize",
      "toolsRegistry.registerTools">>

\* run() and initialize(): the awaited calls, in order.
nodeRunOrder ==
    <<"dbManager.connect", "llmManager.initialize", "toolsRegistry.registerTools",
      "server.connect">>

NodeAt(call) ==
    /\ runtime = "node" /\ ~node.exited
    /\ node.step \in DOMAIN nodeRunOrder
    /\ nodeRunOrder[node.step] = call

\* run's catch block: process.exit(1).
processExit(n, code) == [n EXCEPT !.exited = TRUE, !.exitCode = code]

NodeUnchanged ==
    UNCHANGED <<transportVars, isInitialized, enabled, executionCount, errorCount,
                dispatchOnly, lastOp, app, componentVars>>

NodeDbConnect ==
    /\ NodeAt("dbManager.connect")
    /\ \E outcome \in (IF node.env.dbUp THEN {"ok"} ELSE {"clientFails", "mongooseFails"}) :
          /\ store' = connect(store, outcome)
          /\ node' = IF outcome = "ok" THEN [node EXCEPT !.step = @ + 1]
                     ELSE processExit(node, 1)
    /\ UNCHANGED <<tools, order>>
    /\ NodeUnchanged

\* An initialize that goes on without any provider.
llmInitializeNeverThrows(providers) == FALSE

\* LLMManager.initialize, lines 55-57: the throw when no provider was set.
llmInitializeThrows(providers) == providers = {}

NodeLlmInitialize ==
    /\ NodeAt("llmManager.initialize")
    /\ LET set == node.env.providers IN
       node' = IF llmInitializeThrows(set)
               THEN processExit([node EXCEPT !.providers = set], 1)
               ELSE [node EXCEPT !.providers = set, !.initialized = TRUE, !.step = @ + 1]
    /\ UNCHANGED <<tools, order, store>>
    /\ NodeUnchanged

NodeRunRegisterTools ==
    /\ NodeAt("toolsRegistry.registerTools")
    /\ tools' = RegistryOf(NodeLifecycleTools)
    /\ order' = NodeLifecycleOrder
    /\ node' = [node EXCEPT !.step = @ + 1]
    /\ UNCHANGED store
    /\ NodeUnchanged

NodeServerConnect ==
    /\ NodeAt("server.connect")
    /\ node' = [node EXCEPT !.serverConnected = TRUE, !.step = @ + 1]
    /\ UNCHANGED <<tools, order, store>>
    /\ NodeUnchanged

NodeServing ==
    /\ runtime = "node" /\ ~node.exited /\ node.serverConnected
    /\ node.served < MaxRequests

\* initialize, answered by the Server with the capabilities it was given.
NodeInitializeRequest ==
    /\ NodeServing
    /\ node' = [node EXCEPT !.served = @ + 1,
                            !.advertised = [answered |-> TRUE,
                                            capabilities |-> node.capabilities]]
    /\ UNCHANGED <<tools, order, store>>
    /\ NodeUnchanged

\* tools/list: the ListToolsRequestSchema handler.
NodeListToolsRequest ==
    /\ NodeServing
    /\ "tools/list" \in node.requestHandlers
    /\ node' = [node EXCEPT !.served = @ + 1]
    /\ UNCHANGED <<tools, order, store>>
    /\ NodeUnchanged

\* Temperatures are in tenths: 7 is 0.7, 20 is 2.0.
DefaultTemperature == 7
DefaultMaxTokens   == 1000
ProviderMaxTokens  == 4096

\* Arguments of llm_generate: the optional fields absent, temperature at
\* either end of its bound, maxTokens and provider given.
LlmArguments ==
    { [prompt |-> "p"],
      [prompt |-> "p", temperature |-> 0],
      [prompt |-> "p", temperature |-> 20],
      [prompt |-> "p", maxTokens |-> 500],
      [prompt |-> "p", provider |-> "gemini", temperature |-> 20] }

\* value || fallback for a number: undefined and 0 are falsy.
orDefault(value, given, fallback) == IF given /\ value # 0 THEN value ELSE fallback

Field(args, f) == IF f \in DOMAIN args THEN args[f] ELSE 0

\* The llm_generate handler: provider and options.
llmGenerateProvider(args) == IF "provider" \in DOMAIN args THEN args.provider ELSE "openai"
llmGenerateOptions(args) ==
    [temperature |-> orDefault(Field(args, "temperature"), "temperature" \in DOMAIN args,
                               DefaultTemperature),
     maxTokens   |-> orDefault(Field(args, "maxTokens"), "maxTokens" \in DOMAIN args,
                               DefaultMaxTokens)]

\* LLMManager.generateText and generateWith...: the two throws, then the
\* request sent to the provider.
generateText(n, args) ==
    LET provider == llmGenerateProvider(args)
        options  == llmGenerateOptions(args)
    IN IF ~n.initialized \/ provider \notin n.providers
       THEN [called |-> TRUE, args |-> args, outcome |-> "threw", provider |-> provider,
             temperature |-> 0, maxTokens |-> 0]
       ELSE [called |-> TRUE, args |-> args, outcome |-> "generated", provider |-> provider,
             temperature |-> orDefault(options.temperature, TRUE, DefaultTemperature),
             maxTokens   |-> orDefault(options.maxTokens, TRUE, ProviderMaxTokens)]

\* tools/call llm_generate: the CallToolRequestSchema handler, executeTool,
\* the descriptor's handler.
NodeCallLlmGenerate(args) ==
    /\ NodeServing
    /\ "tools/call" \in node.requestHandlers
    /\ node' = [node EXCEPT
                  !.served = @ + 1,
                  !.generation =
                      IF toolsGet(tools, "llm_generate") = NoTool
                      THEN [called |-> TRUE, args |-> args, outcome |-> "ToolNotFound",
                            provider |-> "-", temperature |-> 0, maxTokens |-> 0]
                      ELSE generateText(node, args)]
    /\ UNCHANGED <<tools, order, store>>
    /\ NodeUnchanged

\* SIGINT / SIGTERM: shutdown() closes the server and disconnects the store,
\* then process.exit(0).  The handlers are set by the constructor.
NodeSignal ==
    /\ runtime = "node" /\ ~node.exited
    /\ \E closes \in BOOLEAN : store' = disconnect(store, closes)
    /\ node' = processExit([node EXCEPT !.serverConnected = FALSE, !.signalled = TRUE], 0)
    /\ UNCHANGED <<tools, order>>
    /\ NodeUnchanged

InitLifecycle ==
    /\ isRunning = FALSE
    /\ messageCount = 0
    /\ loopPc = "unstarted"
    /\ tasks = << >>
    /\ stdout = << >>
    /\ hookPc = "unregistered"
    /\ isInitialized = FALSE
    /\ runtime \in {"java", "node"}
    /\ tools = << >>
    /\ enabled = [o \in ToolObjects |-> TRUE]
    /\ executionCount = 0
    /\ errorCount = 0
    /\ calls = << >>
    /\ storeCalls = 0
    /\ order = << >>
    /\ lastOp = NoOp
    /\ IF runtime = "java"
       THEN app \in {AppStarting(plan) : plan \in RegistrationPlans} /\ node = NodeAbsent
       ELSE app = AppAbsent /\ node \in {NodeConstructed(env) : env \in NodeEnvs}
    /\ store = NewStore
    /\ fs = NoFileSystemCall
    /\ resources = NewResourceManager
    /\ analysis = NoAnalysis
    /\ stdin = NoInput

\* run(): the continuation of each awaited call.
NodeRun ==
    \/ NodeDbConnect
    \/ NodeLlmInitialize
    \/ NodeRunRegisterTools
    \/ NodeServerConnect

NextNode ==
    \/ NodeRun
    \/ NodeInitializeRequest
    \/ NodeListToolsRequest
    \/ \E args \in LlmArguments : NodeCallLlmGenerate(args)
    \/ NodeSignal

NextLifecycle ==
    \/ AppRegisterTool
    \/ AppSetupMcpServer
    \/ AppAddShutdownHook
    \/ AppTransportStart
    \/ Next
    \/ NextNode

SpecLifecycle == InitLifecycle /\ [][NextLifecycle]_vars

\* The Node server alone.  Every awaited call of run() settles (a connect
\* resolves or rejects), and the event loop then runs its continuation.
InitNode == InitLifecycle /\ runtime = "node"

SpecNode == InitNode /\ [][NextNode]_vars

SpecNodeFair == SpecNode /\ WF_vars(NodeRun)

(***************************************************************************)
(* FileSystemTool (src/unnamed/part_003:27-620) on its own.                *)
(*                                                                         *)
(* A path argument is the sequence of its characters, over an alphabet     *)
(* that holds what the checks look at: the dot, the two separators, a      *)
(* letter and a blank.  java.nio.file.Path is a record: whether the path   *)
(* is absolute, and its names in order; a name is a sequence of            *)
(* characters.  The checks of the tool are on the text of the path and on  *)
(* the names of the Path, as in the code: nothing follows a link.          *)
(***************************************************************************)
PathChars == {".", "/", "\\", "a", " "}
MaxPathLen == 4       \* characters in a path argument
PathStrings == UNION {[1..n -> PathChars] : n \in 0..MaxPathLen}

\* The seven actions of the switch in execute, and one it does not know.
SupportedActions == {"read", "write", "list", "info", "exists", "delete", "mkdir"}
FsActionValues == SupportedActions \cup {"chmod"}

\* The arguments of one call: null or not a JSON object, or an object with
\* some of action, path, content present.
NotAnObject == [isObject |-> FALSE, has |-> {}, action |-> "-", path |-> << >>]
FsArguments ==
    {NotAnObject} \cup
    { [isObject |-> TRUE, has |-> h, action |-> a, path |-> p] :
        h \in SUBSET {"action", "path", "content"},
        a \in FsActionValues \cup {"-"},
        p \in PathStrings }

\* Absent members carry one fixed value, so that a set of arguments is one
\* record.
WellFormedArguments(args) ==
    /\ ("action" \in args.has) = (args.action # "-")
    /\ "path" \notin args.has => args.path = << >>

\* String.contains(".."), String.startsWith(c), String.trim().isEmpty(),
\* String.replace("\\", "/").
containsDotDot(s) == \E i \in 1..(Len(s) - 1) : s[i] = "." /\ s[i + 1] = "."
startsWith(s, c) == Len(s) >= 1 /\ s[1] = c
trimIsEmpty(s) == \A i \in 1..Len(s) : s[i] = " "
replaceBackslash(s) == [i \in 1..Len(s) |-> IF s[i] = "\\" THEN "/" ELSE s[i]]

\* if (relativePath.startsWith("./")) relativePath = relativePath.substring(2)
stripDotSlash(s) ==
    IF Len(s) >= 2 /\ s[1] = "." /\ s[2] = "/" THEN SubSeq(s, 3, Len(s)) ELSE s

\* Paths.get(s) on a file system whose separator is "/": the names are the
\* stretches between separators, empty stretches dropped; the path is absolute
\* when the text starts with the separator.
RECURSIVE splitNames(_, _, _)
splitNames(s, current, names) ==
    IF s = << >>
    THEN IF current = << >> THEN names ELSE Append(names, current)
    ELSE IF Head(s) = "/"
         THEN splitNames(Tail(s), << >>,
                         IF current = << >> THEN names ELSE Append(names, current))
         ELSE splitNames(Tail(s), Append(current, Head(s)), names)

PathsGet(s) == [absolute |-> startsWith(s, "/"), names |-> splitNames(s, << >>, << >>)]

DotName == <<".">>
DotDotName == <<".", ".">>

\* Path.normalize(): "." names go; a ".." takes the name before it with it
\* unless that is a ".." too; a ".." with nothing before it stays in a relative
\* path and goes in an absolute one.
RECURSIVE normalizeNames(_, _, _)
normalizeNames(names, absolute, acc) ==
    IF names = << >> THEN acc
    ELSE LET n == Head(names)
             next == IF n = DotName THEN acc
                     ELSE IF n = DotDotName
                          THEN IF acc # << >> /\ acc[Len(acc)] # DotDotName
                               THEN SubSeq(acc, 1, Len(acc) - 1)
                               ELSE IF absolute THEN acc ELSE Append(acc, n)
                          ELSE Append(acc, n)
         IN  normalizeNames(Tail(names), absolute, next)

normalize(p) == [absolute |-> p.absolute,
                 names |-> normalizeNames(p.names, p.absolute, << >>)]

\* Path.toString().contains(".."): the names are joined by one separator, so
\* two dots in a row lie within one name.
pathTextContainsDotDot(p) == \E i \in 1..Len(p.names) : containsDotDot(p.names[i])

\* Path.resolve(other): other itself when it is absolute, else the names of
\* other after this path's.
resolve(p, other) ==
    IF other.absolute THEN other
    ELSE [absolute |-> p.absolute, names |-> p.names \o other.names]

\* Path.startsWith(other): same root, and other's names lead this path's.
pathStartsWith(p, other) ==
    /\ p.absolute = other.absolute
    /\ Len(p.names) >= Len(other.names)
    /\ SubSeq(p.names, 1, Len(other.names)) = other.names

\* basePath = Paths.get(System.getProperty("user.dir")).resolve("workspace")
basePath == [absolute |-> TRUE, names |-> << <<"user.dir">>, <<"workspace">> >>]

\* The messages of the exceptions, by the check that throws them.
NotObjectMessage == "Los argumentos deben ser un objeto JSON"
MissingActionMessage == "Falta el argumento 'action'"
MissingPathMessage == "Falta el argumento 'path'"
MissingContentMessage == "La accion 'write' requiere el argumento 'content'"
ForbiddenPathMessage == "Ruta no permitida"
EmptyPathMessage == "La ruta no puede estar vacia"
OutsideMessage == "Acceso fuera del directorio permitido"
UnsupportedActionMessage == "Accion no soportada"

\* A variant of validateFsArguments that checks the path before the members.
validateFsArgumentsPathFirst(args) ==
    IF ~args.isObject THEN NotObjectMessage
    ELSE IF "path" \in args.has
            /\ (containsDotDot(args.path) \/ startsWith(args.path, "/")
                \/ startsWith(args.path, "\\"))
         THEN ForbiddenPathMessage
    ELSE IF "action" \notin args.has THEN MissingActionMessage
    ELSE IF "path" \notin args.has THEN MissingPathMessage
    ELSE IF args.action = "write" /\ "content" \notin args.has
         THEN MissingContentMessage
    ELSE "ok"

\* FileSystemTool.validateArguments: the message of the exception it throws,
\* "ok" when it returns.
validateFsArguments(args) ==
    IF ~args.isObject THEN NotObjectMessage
    ELSE IF "action" \notin args.has THEN MissingActionMessage
    ELSE IF "path" \notin args.has THEN MissingPathMessage
    ELSE IF args.action = "write" /\ "content" \notin args.has
         THEN MissingContentMessage
    ELSE IF containsDotDot(args.path) \/ startsWith(args.path, "/")
            \/ startsWith(args.path, "\\")
         THEN ForbiddenPathMessage
    ELSE "ok"

NoPath == [absolute |-> FALSE, names |-> << >>]

\* A variant of resolveSafePath that resolves against the base directory and
\* checks nothing.
resolveSafePathUnchecked(relativePath) ==
    [error |-> "none",
     path |-> normalize(resolve(basePath,
                  normalize(PathsGet(stripDotSlash(replaceBackslash(relativePath))))))]

\* FileSystemTool.resolveSafePath: the message of the exception it throws, or
\* the resolved path.
resolveSafePath(relativePath) ==
    IF trimIsEmpty(relativePath) THEN [error |-> EmptyPathMessage, path |-> NoPath]
    ELSE LET cleaned == stripDotSlash(replaceBackslash(relativePath))
             requested == normalize(PathsGet(cleaned))
             resolved == normalize(resolve(basePath, requested))
         IN  IF pathTextContainsDotDot(requested) \/ requested.absolute
             THEN [error |-> ForbiddenPathMessage, path |-> NoPath]
             ELSE IF ~pathStartsWith(resolved, basePath)
                  THEN [error |-> OutsideMessage, path |-> NoPath]
                  ELSE [error |-> "none", path |-> resolved]

\* FileSystemTool.execute: the exception it ends with, or the action it
\* performed and the path it performed it on.  readFile, writeFile,
\* listDirectory, getFileInfo, checkExists, deleteFile and createDirectory
\* work on the path they are given.
execute(args) ==
    LET checked == validateFsArguments(args)
        target == resolveSafePath(args.path)
    IN  IF checked # "ok"
        THEN [error |-> checked, performed |-> "none", target |-> NoPath]
        ELSE IF target.error # "none"
        THEN [error |-> target.error, performed |-> "none", target |-> NoPath]
        ELSE IF args.action \notin SupportedActions
        THEN [error |-> UnsupportedActionMessage, performed |-> "none",
              target |-> NoPath]
        ELSE [error |-> "none", performed |-> args.action, target |-> target.path]

FileSystemCall(args) == [pc |-> "called", args |-> args]

\* One call of execute, from its arguments to its return or its exception.
FileSystemExecute ==
    /\ fs.pc = "called"
    /\ fs' = [pc |-> "returned", args |-> fs.args] @@ execute(fs.args)
    /\ UNCHANGED <<transportVars, isInitialized, managerVars, dispatchOnly,
                   registryView, lifecycleVars, resources, analysis, stdin>>

InitFileSystem ==
    /\ isRunning = FALSE
    /\ messageCount = 0
    /\ loopPc = "top"
    /\ tasks = << >>
    /\ stdout = << >>
    /\ hookPc = "idle"
    /\ isInitialized = FALSE
    /\ runtime = "java"
    /\ tools = << >>
    /\ enabled = [o \in ToolObjects |-> TRUE]
    /\ executionCount = 0
    /\ errorCount = 0
    /\ calls = << >>
    /\ storeCalls = 0
    /\ order = << >>
    /\ lastOp = NoOp
    /\ app = AppServing
    /\ node = NodeAbsent
    /\ store = NewStore
    /\ fs \in {FileSystemCall(args) : args \in {a \in FsArguments : WellFormedArguments(a)}}
    /\ resources = NewResourceManager
    /\ analysis = NoAnalysis
    /\ stdin = NoInput

NextFileSystem == FileSystemExecute

SpecFileSystem == InitFileSystem /\ [][NextFileSystem]_vars

(***************************************************************************)
(* ResourceManager (handlers/ResourceManager.java) on its own.             *)
(*                                                                         *)
(* A resource object answers isAvailable() and requiresAuth() itself; what *)
(* it answers to isAvailable() can change while it is registered.          *)
(***************************************************************************)
MaxReads == 2         \* readResource calls in one run

\* The resources that get registered, by URI, and the URIs a caller may ask
\* for besides: a file URI, one that nothing answers to, and null.
ResourceUris == {"server://info", "database://status"}
FileUri == "file://notes.txt"
UnknownUri == "custom://nothing"
NullUri == "null"
RequestedUris == ResourceUris \cup {FileUri, UnknownUri, NullUri}

ErrorUri == "error://internal"

\* createErrorResponse: one content entry with uri error://internal.
createResourceError(message) == [uri |-> ErrorUri, message |-> message, contentRead |-> FALSE]

\* A variant of readRegisteredResource that does not ask requiresAuth().
readRegisteredResourceNoAuthCheck(rm, uri, contentOk) ==
    IF ~rm.available[uri] THEN createResourceError("Recurso no disponible")
    ELSE IF contentOk THEN [uri |-> uri, message |-> "contents", contentRead |-> TRUE]
    ELSE [uri |-> ErrorUri, message |-> "Error accediendo al recurso", contentRead |-> TRUE]

\* readRegisteredResource: the payload, and whether readContent() was called.
\* An exception of readContent() is turned into an error payload here.
readRegisteredResource(rm, uri, contentOk) ==
    IF ~rm.available[uri] THEN createResourceError("Recurso no disponible")
    ELSE IF rm.requiresAuth[uri] THEN createResourceError("Recurso requiere autenticacion")
    ELSE IF contentOk THEN [uri |-> uri, message |-> "contents", contentRead |-> TRUE]
    ELSE [uri |-> ErrorUri, message |-> "Error accediendo al recurso", contentRead |-> TRUE]

\* readFileResource: the file of that name under the resources directory, or
\* an error payload when it is not there or cannot be read.
readFileResource(uri, fileOk) ==
    IF fileOk THEN [uri |-> uri, message |-> "contents", contentRead |-> FALSE]
    ELSE createResourceError("Archivo no encontrado")

\* readResource: accessCount.incrementAndGet() first; a registered resource
\* goes to readRegisteredResource, a file URI to readFileResource; anything
\* else counts an error; so does an exception (resources.get(null) throws).
readResource(rm, uri, ok) ==
    LET counted == [rm EXCEPT !.accessCount = @ + 1]
    IN  IF uri = NullUri
        THEN [counted EXCEPT !.errorCount = @ + 1,
                             !.last = [asked |-> uri] @@ createResourceError("Error leyendo recurso")]
        ELSE IF uri \in rm.registered
        THEN [counted EXCEPT !.last = [asked |-> uri] @@ readRegisteredResource(rm, uri, ok)]
        ELSE IF uri = FileUri
        THEN [counted EXCEPT !.last = [asked |-> uri] @@ readFileResource(uri, ok)]
        ELSE [counted EXCEPT !.errorCount = @ + 1,
                             !.last = [asked |-> uri] @@ createResourceError("Recurso no encontrado")]

\* registerResource: a resource that is not available is not registered.
registerResource(rm, uri) ==
    IF ~rm.available[uri] THEN rm
    ELSE [rm EXCEPT !.registered = @ \cup {uri}]

unregisterResource(rm, uri) == [rm EXCEPT !.registered = @ \ {uri}]

\* cleanup: resources.clear(); the counters are only logged.
resourcesCleanup(rm) == [rm EXCEPT !.registered = {}]

ResourcesUnchanged ==
    UNCHANGED <<transportVars, isInitialized, managerVars, dispatchOnly, registryView,
                lifecycleVars, fs, analysis, stdin>>

RegisterResource(uri) ==
    /\ resources' = registerResource(resources, uri)
    /\ ResourcesUnchanged

UnregisterResource(uri) ==
    /\ resources' = unregisterResource(resources, uri)
    /\ ResourcesUnchanged

ResourcesCleanup ==
    /\ resources' = resourcesCleanup(resources)
    /\ ResourcesUnchanged

\* The resource object itself starts or stops being available.
SetAvailable(uri, b) ==
    /\ resources' = [resources EXCEPT !.available[uri] = b]
    /\ ResourcesUnchanged

ReadResource(uri, ok) ==
    /\ resources.accessCount < MaxReads
    /\ resources' = readResource(resources, uri, ok)
    /\ ResourcesUnchanged

InitResources ==
    /\ isRunning = FALSE
    /\ messageCount = 0
    /\ loopPc = "top"
    /\ tasks = << >>
    /\ stdout = << >>
    /\ hookPc = "idle"
    /\ isInitialized = FALSE
    /\ runtime = "java"
    /\ tools = << >>
    /\ enabled = [o \in ToolObjects |-> TRUE]
    /\ executionCount = 0
    /\ errorCount = 0
    /\ calls = << >>
    /\ storeCalls = 0
    /\ order = << >>
    /\ lastOp = NoOp
    /\ app = AppServing
    /\ node = NodeAbsent
    /\ store = NewStore
    /\ fs = NoFileSystemCall
    /\ \E auth \in [ResourceUris -> BOOLEAN] :
          resources = [NewResourceManager EXCEPT !.requiresAuth = auth]
    /\ analysis = NoAnalysis
    /\ stdin = NoInput

NextResources ==
    \/ \E uri \in ResourceUris : RegisterResource(uri)
    \/ \E uri \in ResourceUris : UnregisterResource(uri)
    \/ ResourcesCleanup
    \/ \E uri \in ResourceUris, b \in BOOLEAN : SetAvailable(uri, b)
    \/ \E uri \in RequestedUris, ok \in BOOLEAN : ReadResource(uri, ok)

SpecResources == InitResources /\ [][NextResources]_vars

(***************************************************************************)
(* The analysis handlers of ToolsRegistry (src/unnamed/part_001:532-744):  *)
(* analyze_data, smart_query, data_insights, each from its arguments to    *)
(* its result, with the calls it makes on DatabaseManager and LLMManager.  *)
(***************************************************************************)
MaxDocs == 2          \* documents a find returns

AnalysisTools == {"analyze_data", "smart_query", "data_insights"}

\* The arguments that the handlers branch on.  execute is absent, true or
\* false; provider is absent or names one.
AnalysisArguments ==
    [execute : {"absent", "true", "false"}, provider : {"absent", "gemini"}]

\* What the provider answers to generateSQLQuery, by what the handler looks
\* for in it: which of the three method names the text includes, and whether
\* the text after the name matches the pattern and parses as JSON.
QueryMethods == <<"aggregate", "find", "countDocuments">>
QueryCodes ==
    [mentions : SUBSET {"aggregate", "find", "countDocuments"},
     form : {"ok", "noMatch", "unparsable"}]

\* What the document store and the provider do during one call: how many
\* documents find returns, which of the handler's store calls throws (0: none),
\* whether the provider call succeeds, and the query text it generates.
AnalysisEnvs ==
    [docs : 0..MaxDocs, dbThrowsAt : 0..3, llmOk : BOOLEAN, queryCode : QueryCodes]

\* const provider = args.provider || 'openai'
providerOrDefault(args) == IF args.provider = "absent" THEN "openai" ELSE args.provider

\* const execute = args.execute !== false
executeRequested(args) == args.execute # "false"

Threw(dbCalls, llmCalls, what) ==
    [outcome |-> "threw", error |-> what, dbCalls |-> dbCalls, llmCalls |-> llmCalls,
     fields |-> {}, dataCount |-> -1, text |-> "-", executed |-> FALSE, fromProvider |-> {}]

Returned(dbCalls, llmCalls, fields, dataCount, text) ==
    [outcome |-> "returned", error |-> "none", dbCalls |-> dbCalls, llmCalls |-> llmCalls,
     fields |-> fields, dataCount |-> dataCount, text |-> text, executed |-> FALSE,
     fromProvider |-> {}]

NoDataAnalysis == "No se encontraron datos para analizar."
NoDataInsights == "No hay datos en la coleccion para analizar."

\* The handler of analyze_data.
analyzeDataHandler(args, env) ==
    IF env.dbThrowsAt = 1 THEN Threw(<<"find">>, << >>, "find")
    ELSE IF env.docs = 0
    THEN Returned(<<"find">>, << >>, {"collection", "question", "analysis", "dataCount"},
                  0, NoDataAnalysis)
    ELSE IF ~env.llmOk THEN Threw(<<"find">>, <<"analyzeData">>, "analyzeData")
    ELSE Returned(<<"find">>, <<"analyzeData">>,
                  {"collection", "query", "question", "provider", "dataCount", "analysis"},
                  env.docs, "analysis")

\* A variant of dataInsightsHandler that fetches the statistics before it
\* looks at the sample.
dataInsightsStatsFirst(args, env) ==
    IF env.dbThrowsAt = 1 THEN Threw(<<"find">>, << >>, "find")
    ELSE IF env.docs = 0
    THEN Returned(<<"find", "countDocuments", "getCollectionSchema">>, << >>,
                  {"collection", "insights", "dataCount"}, 0, NoDataInsights)
    ELSE Returned(<<"find", "countDocuments", "getCollectionSchema">>, <<"generateText">>,
                  {"collection", "totalDocuments", "sampleSize", "schema", "insights",
                   "provider"},
                  env.docs, "insights")

\* The handler of data_insights.
dataInsightsHandler(args, env) ==
    IF env.dbThrowsAt = 1 THEN Threw(<<"find">>, << >>, "find")
    ELSE IF env.docs = 0
    THEN Returned(<<"find">>, << >>, {"collection", "insights", "dataCount"},
                  0, NoDataInsights)
    ELSE IF env.dbThrowsAt = 2
    THEN Threw(<<"find", "countDocuments">>, << >>, "countDocuments")
    ELSE IF env.dbThrowsAt = 3
    THEN Threw(<<"find", "countDocuments", "getCollectionSchema">>, << >>,
               "getCollectionSchema")
    ELSE IF ~env.llmOk
    THEN Threw(<<"find", "countDocuments", "getCollectionSchema">>, <<"generateText">>,
               "generateText")
    ELSE Returned(<<"find", "countDocuments", "getCollectionSchema">>, <<"generateText">>,
                  {"collection", "totalDocuments", "sampleSize", "schema", "insights",
                   "provider"},
                  env.docs, "insights")

\* The if / else-if chain on queryCode.includes(...): the first of aggregate,
\* find, countDocuments that the text includes, "none" when it includes none.
queryBranch(queryCode) ==
    IF \E i \in 1..3 : QueryMethods[i] \in queryCode.mentions
    THEN QueryMethods[CHOOSE i \in 1..3 :
             /\ QueryMethods[i] \in queryCode.mentions
             /\ \A j \in 1..3 : QueryMethods[j] \in queryCode.mentions => i <= j]
    ELSE "none"

SmartQueryFields ==
    {"request", "collection", "provider", "generatedQuery", "schema", "executed",
     "results", "resultCount", "error"}

\* The handler of smart_query: the schema, the generated query, then, when
\* execute is not false, the store call that the generated text asks for.  An
\* error of that call or of JSON.parse goes into the error member.
smartQueryHandler(args, env) ==
    LET branch == queryBranch(env.queryCode)
        base == Returned(<<"getCollectionSchema">>, <<"generateSQLQuery">>,
                         SmartQueryFields, 0, "generatedQuery")
        asked == [base EXCEPT !.executed = executeRequested(args)]
    IN  IF env.dbThrowsAt = 1 THEN Threw(<<"getCollectionSchema">>, << >>, "getCollectionSchema")
        ELSE IF ~env.llmOk
        THEN Threw(<<"getCollectionSchema">>, <<"generateSQLQuery">>, "generateSQLQuery")
        ELSE IF ~executeRequested(args) \/ branch = "none" \/ env.queryCode.form = "noMatch"
        THEN asked
        ELSE IF env.queryCode.form = "unparsable"
        THEN [asked EXCEPT !.error = "SyntaxError"]
        ELSE [asked EXCEPT !.dbCalls = Append(@, branch),
                           !.fromProvider = {branch},
                           !.error = IF env.dbThrowsAt = 2 THEN branch ELSE "none",
                           !.dataCount = IF env.dbThrowsAt = 2 THEN 0
                                         ELSE IF branch = "countDocuments" THEN 1
                                         ELSE env.docs]

handler(tool, args, env) ==
    CASE tool = "analyze_data"  -> analyzeDataHandler(args, env)
      [] tool = "smart_query"   -> smartQueryHandler(args, env)
      [] tool = "data_insights" -> dataInsightsHandler(args, env)

AnalysisCall(tool, args) == [pc |-> "called", tool |-> tool, args |-> args]

\* One call of a handler, from its arguments to its result or its exception.
AnalysisRun(env) ==
    /\ analysis.pc = "called"
    /\ analysis' = [pc |-> "done", tool |-> analysis.tool, args |-> analysis.args,
                    env |-> env]
                   @@ handler(analysis.tool, analysis.args, env)
    /\ UNCHANGED <<transportVars, isInitialized, managerVars, dispatchOnly,
                   registryView, lifecycleVars, fs, resources, stdin>>

InitAnalysis ==
    /\ isRunning = FALSE
    /\ messageCount = 0
    /\ loopPc = "top"
    /\ tasks = << >>
    /\ stdout = << >>
    /\ hookPc = "idle"
    /\ isInitialized = FALSE
    /\ runtime = "node"
    /\ tools = << >>
    /\ enabled = [o \in ToolObjects |-> TRUE]
    /\ executionCount = 0
    /\ errorCount = 0
    /\ calls = << >>
    /\ storeCalls = 0
    /\ order = << >>
    /\ lastOp = NoOp
    /\ app = AppServing
    /\ node = NodeAbsent
    /\ store = NewStore
    /\ fs = NoFileSystemCall
    /\ resources = NewResourceManager
    /\ analysis \in {AnalysisCall(tool, args) : tool \in AnalysisTools,
                                                args \in AnalysisArguments}
    /\ stdin = NoInput

NextAnalysis == \E env \in AnalysisEnvs : AnalysisRun(env)

SpecAnalysis == InitAnalysis /\ [][NextAnalysis]_vars

(***************************************************************************)
(* The message loop with its input written out: the lines that stdin still *)
(* holds, then the end of the stream.  readMessage consumes lines, the     *)
(* session of Spec handles what it returns, and startServer waits on the   *)
(* future of the loop.                                                     *)
(***************************************************************************)
MaxLines == 3         \* lines in the input stream of SpecInput

\* A line is blank (empty or white space), a JSON object complete on one
\* line, or the first or the last line of an object written on two lines.
LineKinds == {"blank", "json", "head", "tail"}
InputStreams == UNION {[1..n -> LineKinds] : n \in 0..MaxLines}

RECURSIVE braceCount(_)
braceCount(builder) ==
    IF builder = << >> THEN 0
    ELSE (CASE Head(builder) = "head" -> 1
            [] Head(builder) = "tail" -> -1
            [] OTHER -> 0) + braceCount(Tail(builder))

\* isCompleteJsonMessage: the text starts with "{", ends with "}", and its
\* braces outside strings balance.
isCompleteJsonMessage(builder) ==
    /\ builder # << >>
    /\ builder[1] \in {"json", "head"}
    /\ builder[Len(builder)] \in {"json", "tail"}
    /\ braceCount(builder) = 0

\* A variant of readMessage that takes a blank line for the end of the input.
RECURSIVE readMessageEndingAtBlank(_, _)
readMessageEndingAtBlank(lines, builder) ==
    IF lines = << >> THEN [message |-> builder, rest |-> << >>]
    ELSE IF Head(lines) = "blank" THEN [message |-> builder, rest |-> Tail(lines)]
    ELSE LET b == Append(builder, Head(lines))
         IN  IF isCompleteJsonMessage(b) THEN [message |-> b, rest |-> Tail(lines)]
             ELSE readMessageEndingAtBlank(Tail(lines), b)

\* readMessage: lines are read until the text is a complete object, a blank
\* line follows text, or readLine returns null; blank lines before any text
\* are skipped.  The message is the lines it is made of, << >> standing for
\* the null that is returned when there is no text.
RECURSIVE readMessage(_, _)
readMessage(lines, builder) ==
    IF lines = << >> THEN [message |-> builder, rest |-> << >>]
    ELSE IF Head(lines) = "blank"
         THEN IF builder # << >> THEN [message |-> builder, rest |-> Tail(lines)]
              ELSE readMessage(Tail(lines), builder)
    ELSE LET b == Append(builder, Head(lines))
         IN  IF isCompleteJsonMessage(b) THEN [message |-> b, rest |-> Tail(lines)]
             ELSE readMessage(Tail(lines), b)

\* The lines that readLine has not returned yet; the stream is at its end
\* when there is none.
Unread(in) == SubSeq(in.lines, in.pos + 1, Len(in.lines))
AtEOF(in) == in.pos = Len(in.lines)

\* message.trim().isEmpty()
trimmedIsEmpty(message) == \A i \in 1..Len(message) : message[i] = "blank"

\* What the handler parses the text into: a ping request when the text is one
\* object, text that is not JSON otherwise.
parseLines(message) ==
    IF message \in {<<"json">>, <<"head", "tail">>}
    THEN Msg("ok", TRUE, "ping", "-", {})
    ELSE Msg("badjson", FALSE, "ping", "-", {})

InputUnchanged ==
    UNCHANGED <<managerVars, dispatchOnly, registryView, lifecycleVars, fs, resources,
                analysis>>

\* One pass of the loop body: readMessage, then break on null, continue on a
\* blank message, or count the message and hand it to messageHandler.apply.
ReadInput ==
    /\ ~Halted /\ loopPc = "read"
    /\ LET read == readMessage(Unread(stdin), << >>) IN
       /\ stdin' = [stdin EXCEPT !.pos = Len(stdin.lines) - Len(read.rest)]
       /\ IF read.message = << >>
          THEN /\ loopPc' = "ended"
               /\ isRunning' = FALSE
               /\ UNCHANGED <<messageCount, tasks>>
          ELSE IF trimmedIsEmpty(read.message)
          THEN /\ loopPc' = "top"
               /\ UNCHANGED <<isRunning, messageCount, tasks>>
          ELSE /\ loopPc' = "top"
               /\ messageCount' = messageCount + 1
               /\ tasks' = Append(tasks, [lines |-> read.message]
                                         @@ NewTask(parseLines(read.message)))
               /\ UNCHANGED isRunning
    /\ UNCHANGED <<stdout, hookPc, isInitialized>>
    /\ InputUnchanged

\* readLine throws IOException: break when isRunning, else back to the while
\* condition.
ReadIOException ==
    /\ ~Halted /\ loopPc = "read"
    /\ IF isRunning THEN loopPc' = "ended" /\ isRunning' = FALSE
                    ELSE loopPc' = "top" /\ UNCHANGED isRunning
    /\ UNCHANGED <<messageCount, tasks, stdout, hookPc, isInitialized, stdin>>
    /\ InputUnchanged

\* startServer: serverFuture.get() returns once runMessageLoop has returned.
AppAwaitServer ==
    /\ ~Halted
    /\ app.pc = "serving"
    /\ loopPc = "ended"
    /\ app' = [app EXCEPT !.pc = "stopped"]
    /\ UNCHANGED <<transportVars, isInitialized, managerVars, dispatchOnly, registryView,
                   node, store, componentVars>>

\* After transport.start(): the loop is about to test its condition, the
\* input holds any lines.
InitInput ==
    /\ isRunning = TRUE
    /\ messageCount = 0
    /\ loopPc = "top"
    /\ tasks = << >>
    /\ stdout = << >>
    /\ hookPc = "idle"
    /\ isInitialized = FALSE
    /\ runtime = "java"
    /\ tools = RegistryOf(UniversalTools)
    /\ enabled = [o \in ToolObjects |-> TRUE]
    /\ executionCount = 0
    /\ errorCount = 0
    /\ calls = << >>
    /\ storeCalls = 0
    /\ order = << >>
    /\ lastOp = NoOp
    /\ app = AppServing
    /\ node = NodeAbsent
    /\ store = NewStore
    /\ fs = NoFileSystemCall
    /\ resources = NewResourceManager
    /\ analysis = NoAnalysis
    /\ stdin \in {[lines |-> l, pos |-> 0] : l \in InputStreams}

\* The steps of the thread that runs runMessageLoop.
LoopStep == LoopTop \/ ReadInput \/ ReadIOException

NextInput ==
    \/ LoopTop
    \/ ReadInput
    \/ ReadIOException
    \/ \E k \in 1..MaxLines : HandleMessage(k)
    \/ \E k \in 1..MaxLines : ThenAccept(k)
    \/ AppAwaitServer
    \/ ShutdownTransport
    \/ ShutdownCleanup
    \/ ShutdownExit

SpecInput == InitInput /\ [][NextInput]_vars

\* The loop has a pool thread of its own (newCachedThreadPool) and the main
\* thread waits in get(): each takes its next step when it has one.
SpecInputFair == SpecInput /\ WF_vars(LoopStep) /\ WF_vars(AppAwaitServer)

(***************************************************************************)
(* Claims.                                                                 *)
(***************************************************************************)
Handled(k) == k \in DOMAIN tasks /\ tasks[k].state # "running"
LinesFor(k) == {i \in DOMAIN stdout : stdout[i].msgId = k}

\* C1: every request that carries an id receives exactly one response, and
\* that response carries the same id (invalid requests, requests whose
\* handling throws and `initialized` sent with an id included).  Under Spec.
C1_EveryRequestAnsweredOnce ==
    \A k \in DOMAIN tasks :
        tasks[k].msg.hasId =>
            /\ Cardinality(LinesFor(k)) <= 1
            /\ tasks[k].state = "done" =>
                 \E i \in LinesFor(k) : stdout[i].line.id = k

\* C2: a message without an id never causes a line to be written to the
\* output, whatever its method and whatever the session state.  Under Spec.
C2_NotificationsNeverAnswered ==
    \A i \in DOMAIN stdout : tasks[stdout[i].msgId].msg.hasId

\* C3 as claimed: while the session is not Ready, every method except
\* initialize and ping (tools/list, tools/call, resources/list,
\* resources/read, resources/updated, unknown methods) is answered with
\* -32002.  Under Spec.
C3_AllMethodsNotInitialized ==
    \A k \in DOMAIN tasks :
        ( /\ Handled(k) /\ tasks[k].msg.frame = "ok" /\ ~tasks[k].readyWas
          /\ tasks[k].msg.method \in {"tools/list", "tools/call", "resources/list",
                                      "resources/read", "resources/updated",
                                      "unknown/method"} )
        => tasks[k].response =
               createErrorResponse(RequestId(k, tasks[k].msg), ServerNotInitialized)

\* C3 as amended: while the session is not Ready, tools/list, tools/call,
\* resources/list and resources/read are answered with -32002; an unknown
\* method is answered with -32601 and resources/updated with nothing.
C3_GuardedMethodsNotInitialized ==
    \A k \in DOMAIN tasks :
        (Handled(k) /\ tasks[k].msg.frame = "ok" /\ ~tasks[k].readyWas) =>
            LET m == tasks[k].msg.method
                id == RequestId(k, tasks[k].msg)
                r == tasks[k].response
            IN /\ m \in {"tools/list", "tools/call", "resources/list", "resources/read"}
                    => r = [id |-> id, kind |-> "error", code |-> -32002, body |-> "-"]
               /\ m = "unknown/method"
                    => r = [id |-> id, kind |-> "error", code |-> -32601, body |-> "-"]
               /\ m = "resources/updated" => r.kind = "null"

C3_Witness ==
    \E k \in DOMAIN tasks :
        /\ tasks[k].state = "done" /\ ~tasks[k].readyWas
        /\ tasks[k].msg.method = "tools/list" /\ tasks[k].msg.hasId
        /\ \E i \in LinesFor(k) : stdout[i].line.code = -32002 /\ stdout[i].line.id = k

\* C4: the session reaches Ready only through initialize then initialized,
\* and no tools/call is executed in a run in which initialize was never
\* received.  Under Spec.
InitializeReceived ==
    \E k \in DOMAIN tasks : tasks[k].msg.frame = "ok" /\ tasks[k].msg.method = "initialize"
InitializeHandled ==
    \E k \in DOMAIN tasks :
        Handled(k) /\ tasks[k].msg.frame = "ok" /\ tasks[k].msg.method = "initialize"

C4_ReadyOnlyThroughHandshake ==
    /\ isInitialized => InitializeHandled
    /\ executionCount > 0 => InitializeReceived

\* C5: every failing tools/call (unknown tool, disabled tool, invalid
\* arguments, handler that throws) is answered with a result payload marked
\* as an error, never with an RPC-level error envelope.  Under Spec.
C5_ToolFailuresAreErrorResults ==
    \A k \in DOMAIN tasks :
        (Handled(k) /\ tasks[k].exec \in {"notFound", "disabled", "threw"}) =>
            /\ tasks[k].response.kind = "result"
            /\ tasks[k].response.body = "isError:true"

FailureKinds == {"ToolNotFound", "ToolDisabled", "ToolExecutionFailed", "InvalidArguments"}

\* C6: a call whose arguments lack a field listed in the tool's
\* inputSchema.required fails with InvalidArguments and the handler is never
\* invoked (no document-store call is made).  Under SpecDispatch.
C6_MissingRequiredRejected ==
    \A c \in Callers :
        ( /\ calls[c].pc \in {"awaiting", "errThrew", "done"}
          /\ calls[c].tool # NoTool /\ ~calls[c].disabledAtCheck
          /\ ~(Required(calls[c].tool.name) \subseteq calls[c].args) )
        => /\ calls[c].handlerRuns = 0
           /\ calls[c].storeCalls = 0
           /\ calls[c].pc = "done" => calls[c].outcome.kind = "InvalidArguments"

\* C7: for a name that is not in the registry at the time of the call,
\* executeTool fails with ToolNotFound, no handler is executed and no
\* collaborator call is made.  Under SpecDispatch.
C7_UnregisteredNameNotFound ==
    \A c \in Callers :
        calls[c].absentAtGet =>
            /\ calls[c].handlerRuns = 0
            /\ calls[c].storeCalls = 0
            /\ calls[c].pc = "done" =>
                 calls[c].outcome = [kind |-> "ToolNotFound", msg |-> calls[c].name]

C7_Witness ==
    \E c \in Callers :
        /\ calls[c].pc = "done" /\ calls[c].absentAtGet
        /\ calls[c].outcome.kind = "ToolNotFound"
        /\ DOMAIN tools # {}

\* C8: when the descriptor found is disabled at the time of the call,
\* executeTool fails with ToolDisabled and the handler is not invoked, also
\* for a tool that was enabled when it was registered.  Under SpecDispatch.
C8_DisabledToolRejected ==
    \A c \in Callers :
        calls[c].disabledAtCheck =>
            /\ calls[c].handlerRuns = 0
            /\ calls[c].pc = "done" =>
                 calls[c].outcome = [kind |-> "ToolDisabled", msg |-> calls[c].name]

C8_Witness ==
    \E c \in Callers :
        /\ calls[c].pc = "done" /\ calls[c].disabledAtCheck
        /\ calls[c].tool \in JavaTools
        /\ calls[c].outcome.kind = "ToolDisabled"

CallsBegun  == {c \in Callers : calls[c].pc # "idle"}
CallsFailed == {c \in Callers : calls[c].pc = "done" /\ calls[c].outcome.kind \in FailureKinds}

C10_CountersExact ==
    runtime = "java" =>
        /\ executionCount = Cardinality(CallsBegun)
        /\ errorCount = Cardinality(CallsFailed)

C10_CountersNeverLoseUpdates ==
    /\ []C10_CountersExact
    /\ [][executionCount' >= executionCount /\ errorCount' >= errorCount]_vars

C10_Witness ==
    /\ runtime = "java"
    /\ \A c \in Callers : calls[c].pc = "done"
    /\ executionCount = MaxCalls
    /\ errorCount = 1

\* C11: a malformed envelope (JSON that does not parse, or no jsonrpc "2.0")
\* is answered with error -32600 carrying the request's id when an id can
\* be parsed from it, and otherwise produces no output at all.  Under Spec.
C11_MalformedEnvelopeInvalidRequest ==
    \A k \in DOMAIN tasks :
        (Handled(k) /\ tasks[k].msg.frame # "ok") =>
            LET r == tasks[k].response IN
            IF tasks[k].msg.frame = "nojsonrpc" /\ tasks[k].msg.hasId
            THEN r = [id |-> k, kind |-> "error", code |-> -32600, body |-> "-"]
            ELSE \/ r.kind = "null"
                 \/ /\ tasks[k].msg.hasId
                    /\ r = [id |-> k, kind |-> "error", code |-> -32600, body |-> "-"]

\* The step that handles task k.
HandlesTask(k) ==
    /\ k \in DOMAIN tasks /\ tasks[k].state = "running"
    /\ tasks'[k].state # "running"

SessionAndRegistryUnchanged ==
    UNCHANGED <<isInitialized, tools, enabled, executionCount, errorCount>>

\* C12: in every session state a request whose method is not in the method
\* catalog is answered with error -32601 carrying the request's id, and the
\* session state and the registry are left unchanged.  Under Spec.
C12_UnknownAnswered ==
    \A k \in DOMAIN tasks :
        (Handled(k) /\ tasks[k].msg.frame = "ok" /\ tasks[k].msg.method = "unknown/method") =>
            /\ tasks[k].response =
                 [id |-> RequestId(k, tasks[k].msg), kind |-> "error",
                  code |-> -32601, body |-> "-"]
            /\ tasks[k].state = "done" =>
                 \E i \in LinesFor(k) : stdout[i].line = tasks[k].response

C12_UnknownMethodNotFound ==
    /\ []C12_UnknownAnswered
    /\ [][\A k \in 1..MaxMessages :
            (HandlesTask(k) /\ tasks[k].msg.frame = "ok"
                            /\ tasks[k].msg.method = "unknown/method")
            => SessionAndRegistryUnchanged]_vars

C12_Witness ==
    \E k \in DOMAIN tasks :
        /\ tasks[k].state = "done" /\ tasks[k].readyWas
        /\ tasks[k].msg.frame = "ok" /\ tasks[k].msg.method = "unknown/method"
        /\ tasks[k].msg.hasId
        /\ \E i \in LinesFor(k) : stdout[i].line.code = -32601 /\ stdout[i].line.id = k

\* C13: ping is answered with a success result whose status is "ok" in
\* every session state, including before initialize and before initialized,
\* and changes neither session state nor registry nor counters.  Under Spec.
C13_PingAnswered ==
    \A k \in DOMAIN tasks :
        (Handled(k) /\ tasks[k].msg.frame = "ok" /\ tasks[k].msg.method = "ping") =>
            tasks[k].response =
                [id |-> RequestId(k, tasks[k].msg), kind |-> "result",
                 code |-> 0, body |-> "status:ok"]

C13_PingAlwaysOk ==
    /\ []C13_PingAnswered
    /\ [][\A k \in 1..MaxMessages :
            (HandlesTask(k) /\ tasks[k].msg.frame = "ok" /\ tasks[k].msg.method = "ping")
            => SessionAndRegistryUnchanged]_vars

C13_Witness ==
    \E k \in DOMAIN tasks :
        /\ tasks[k].state = "done" /\ ~tasks[k].readyWas /\ ~InitializeReceived
        /\ tasks[k].msg.frame = "ok" /\ tasks[k].msg.method = "ping" /\ tasks[k].msg.hasId
        /\ \E i \in LinesFor(k) : stdout[i].line.body = "status:ok" /\ stdout[i].line.id = k

\* The step is a registry operation of the given kind.
Calls(op) == lastOp'.tick # lastOp.tick /\ lastOp'.op = op

Listed(reg) == {getToolsListAsJson(reg)[i] : i \in DOMAIN getToolsListAsJson(reg)}

\* C14: register(descriptor) fails with InvalidDescriptor when the name is
\* empty, blank or null and then leaves the registry unchanged; every other
\* descriptor is inserted, replacing any descriptor of the same name, and is
\* visible to subsequent lookups and listings.  Under SpecRegistry.
C14_RegisterInsertsOrRejects ==
    lastOp.op = "register" =>
        LET d == lastOp.arg IN
        IF d = NoTool \/ IsBlank(d.name)
        THEN lastOp.result = "InvalidDescriptor" /\ tools = lastOp.before
        ELSE /\ d.name \in DOMAIN tools /\ tools[d.name] = d
             /\ d \in Listed(tools)
             /\ \A n \in DOMAIN lastOp.before \ {d.name} :
                    n \in DOMAIN tools /\ tools[n] = lastOp.before[n]

\* C15: after a register that inserted d, and until a register or unregister
\* of the same name (or the cleanup of the whole registry), lookup(d.name)
\* returns exactly d; a later register under the same name makes lookup
\* return the new descriptor; lookup changes no state.  Under SpecRegistry.
C15_LookupAnswers ==
    /\ (lastOp.op = "register" /\ lastOp.result = "registered")
          => getToolInfo(tools, lastOp.arg.name) = lastOp.arg
    /\ lastOp.op = "lookup" =>
          lastOp.result = IF lastOp.arg \in DOMAIN lastOp.before
                          THEN lastOp.before[lastOp.arg] ELSE NoTool

Replaces(n) ==
    \/ Calls("register") /\ lastOp'.arg.name = n
    \/ Calls("unregister") /\ lastOp'.arg = n
    \/ Calls("cleanup")

C16_UnregisterEffect ==
    lastOp.op = "unregister" =>
        /\ lastOp.result = "returned"
        /\ DOMAIN tools = DOMAIN lastOp.before \ {lastOp.arg}
        /\ \A n \in DOMAIN tools : tools[n] = lastOp.before[n]
        /\ lastOp.arg \notin DOMAIN lastOp.before => tools = lastOp.before

C16_UnregisterRemovesOnlyName ==
    /\ []C16_UnregisterEffect
    /\ [][Calls("unregister") => UNCHANGED <<executionCount, errorCount, enabled>>]_vars

C16_Witness ==
    /\ lastOp.op = "unregister"
    /\ lastOp.arg \in DOMAIN lastOp.before
    /\ DOMAIN tools # {}

\* C17: in every reachable state the tool listing contains no descriptor
\* that is disabled and count() equals the number of enabled descriptors, so
\* the listing has count() entries.  Under SpecRegistry.
C17_ListingOnlyEnabled ==
    runtime = "java" =>
        LET l == getToolsListAsJson(tools) IN
        /\ \A i \in DOMAIN l : enabled[l[i]]
        /\ getToolCount(tools, enabled) = Cardinality({n \in DOMAIN tools : enabled[tools[n]]})
        /\ Len(l) = getToolCount(tools, enabled)

\* C18: the listing enumerates descriptors in the order in which their names
\* were registered, and two consecutive listings with no register or
\* unregister between them are identical.  Under SpecRegistry.
C18_ListingInInsertionOrder ==
    lastOp.op = "list" =>
        /\ [i \in DOMAIN lastOp.result |-> lastOp.result[i].name] = lastOp.orderWas
        /\ lastOp.prev.known => lastOp.result = lastOp.prev.listing

\* C19: the dispatcher hands the handler exactly the arguments the caller
\* sent, and on handler success returns the handler's result unchanged
\* without incrementing the error counter.  Under SpecDispatch.
C19_ArgumentsAndResultPassThrough ==
    \A c \in Callers :
        /\ calls[c].handlerRuns > 0 => calls[c].handlerArgs = calls[c].args
        /\ (calls[c].pc = "done" /\ calls[c].handlerResult \in {"returned", "returnedError"})
              => /\ calls[c].outcome = [kind |-> calls[c].handlerResult, msg |-> "-"]
                 /\ calls[c].errIncs = 0

C19_Witness ==
    \E c \in Callers :
        /\ calls[c].pc = "done" /\ calls[c].name = "filesystem"
        /\ calls[c].handlerArgs = {"action", "path"}
        /\ calls[c].handlerResult = "returned"
        /\ errorCount = 0

\* The state of an invocation in the terms of the invocation state machine.
Phase(call) ==
    CASE call.pc = "idle"                          -> "NotReceived"
      [] call.pc = "get"                           -> "Received"
      [] call.pc = "check"                         -> "Validating"
      [] call.pc \in {"errNotFound", "errDisabled"} -> "Rejected"
      [] call.pc \in {"execute", "awaiting"}       -> "Executing"
      [] call.pc = "errThrew"                      -> "Failed"
      [] OTHER ->
           IF call.outcome.kind \in {"ToolNotFound", "ToolDisabled", "InvalidArguments"}
           THEN "Rejected"
           ELSE IF call.outcome.kind = "ToolExecutionFailed" THEN "Failed"
           ELSE "Succeeded"

\* The states that follow a state, one or more transitions later.
After(phase) ==
    CASE phase = "NotReceived" -> {"Received", "Validating", "Rejected", "Executing",
                                   "Succeeded", "Failed"}
      [] phase = "Received"    -> {"Validating", "Rejected", "Executing", "Succeeded", "Failed"}
      [] phase = "Validating"  -> {"Rejected", "Executing", "Succeeded", "Failed"}
      [] phase = "Executing"   -> {"Succeeded", "Failed"}
      [] OTHER                 -> {}

\* C20: each invocation follows Received -> Validating -> {Rejected |
\* Executing} -> {Succeeded | Failed}, stays in the one terminal state it
\* reaches, and invokes the handler at most once (no retry after a
\* failure).  Under SpecDispatch.
C20_AtMostOneHandlerRun ==
    \A c \in Callers :
        /\ calls[c].handlerRuns <= 1
        /\ Phase(calls[c]) \in {"Rejected"} => calls[c].handlerRuns = 0
        /\ Phase(calls[c]) \in {"Succeeded", "Failed"} => calls[c].handlerRuns = 1

C20_InvocationStateMachine ==
    /\ []C20_AtMostOneHandlerRun
    /\ [][\/ calls' = calls
          \/ \A c \in Callers :
                \/ calls'[c] = calls[c]
                \/ /\ calls[c].pc # "done"
                   /\ \/ Phase(calls'[c]) = Phase(calls[c])
                      \/ Phase(calls'[c]) \in After(Phase(calls[c]))]_vars

C20_Witness ==
    \E c, d \in Callers :
        /\ runtime = "java"
        /\ calls[c].pc = "done" /\ Phase(calls[c]) = "Failed" /\ calls[c].handlerRuns = 1
        /\ calls[d].pc = "done" /\ Phase(calls[d]) = "Rejected"

\* C21: when invocations of different tool names are in flight together,
\* under every interleaving each one completes, each handler receives the
\* arguments of its own call, and each caller receives the result of its own
\* call.  Under SpecDispatchFair.
C21_OwnArgumentsOwnResult ==
    \A c \in Callers :
        /\ calls[c].handlerRuns > 0 =>
              /\ calls[c].tool.name = calls[c].name
              /\ calls[c].handlerArgs = calls[c].args
        /\ (calls[c].pc = "done" /\ calls[c].handlerRuns > 0) =>
              /\ [kind |-> calls[c].handlerResult, msg |-> calls[c].thrown]
                    \in HandlerResults(calls[c].name, calls[c].args)
              /\ calls[c].outcome.kind \in {calls[c].handlerResult, "ToolExecutionFailed"}

C21_ConcurrentCallsIsolated ==
    /\ []C21_OwnArgumentsOwnResult
    /\ \A c \in Callers : (calls[c].pc # "idle") ~> (calls[c].pc = "done")

C21_Witness ==
    \E c, d \in Callers :
        /\ calls[c].pc = "done" /\ calls[c].name = "calculator" /\ calls[c].handlerRuns = 1
        /\ calls[d].pc = "done" /\ calls[d].name = "filesystem" /\ calls[d].handlerRuns = 1
        /\ calls[d].handlerArgs = {"action", "path"}
        /\ calls[c].handlerArgs = {}

\* C24: when a name is registered again while lookups and invocations run,
\* the name is never absent from the registry and its entry is either the
\* old or the new descriptor; a lookup returns the whole descriptor that is
\* registered at that moment; and an invocation that has looked up its
\* descriptor keeps it and runs that descriptor's handler whatever happens
\* to the registry afterwards.  Under SpecDispatch.
C24_ReplacementIsAtomic ==
    [][/\ \A tool \in JavaTools :
             (RegisterTool(tool) /\ tool.name \in DOMAIN tools) =>
                 /\ tool.name \in DOMAIN tools'
                 /\ tools'[tool.name] \in {tools[tool.name], tool}
                 /\ \A n \in DOMAIN tools \ {tool.name} :
                       n \in DOMAIN tools' /\ tools'[n] = tools[n]
       /\ \A c \in Callers :
             \/ calls'[c] = calls[c]
             \/ /\ (calls[c].pc = "get" /\ calls[c].name \in DOMAIN tools) =>
                       calls'[c].tool = tools[calls[c].name]
                /\ calls[c].pc \in {"check", "execute"} =>
                       calls'[c].tool = calls[c].tool
                /\ calls[c].pc = "execute" =>
                       /\ calls'[c].handlerRuns = calls[c].handlerRuns + 1
                       /\ [kind |-> calls'[c].handlerResult, msg |-> calls'[c].thrown]
                             \in HandlerResults(calls[c].tool.name, calls[c].args)]_vars

C24_Witness ==
    \E c, d \in Callers :
        /\ calls[c].pc = "done" /\ calls[c].handlerRuns = 1
        /\ calls[c].tool = ToolObject("calculator", 1)
        /\ calls[d].pc = "execute" /\ calls[d].tool = ToolObject("calculator", 2)
        /\ tools = << >>

\* C23: once shutdown() has been called on the transport, no message read
\* afterwards is handed to the protocol handler and no response is written
\* to the output.  Under Spec.
C23_NothingAfterClosure ==
    [][hookPc # "idle" => (Len(tasks') = Len(tasks) /\ stdout' = stdout)]_vars

\* C30: once the transport has read the `initialized` message, every
\* tools/list or tools/call read after it is handled in the Ready state: it
\* is never answered with -32002 Server not initialized.  Under Spec.
C30_ReadyOnceInitializedIsRead ==
    \A k, j \in DOMAIN tasks :
        ( /\ k < j
          /\ tasks[k].msg.frame = "ok" /\ tasks[k].msg.method = "initialized"
          /\ tasks[j].msg.frame = "ok"
          /\ tasks[j].msg.method \in {"tools/list", "tools/call"}
          /\ Handled(j) )
        => ~(tasks[j].response.kind = "error"
             /\ tasks[j].response.code = ServerNotInitialized)

\* C27: each of the fourteen document-store operations, called while the
\* manager has no active connection (isConnected is false: never connected,
\* a connect that failed, or disconnected), fails with the store-unavailable
\* error, makes no driver call, and leaves isConnected, client and db as
\* they were.  Under SpecStore.
C27_NoConnectionNoDriverCall ==
    [][\A op \in StoreOps, driverOk \in BOOLEAN :
          (StoreOperation(op, driverOk) /\ ~store.isConnected) =>
              /\ store'.last = [op |-> op, outcome |-> "StoreUnavailable"]
              /\ store'.driverCalls = store.driverCalls
              /\ store'.isConnected = store.isConnected
              /\ store'.client = store.client
              /\ store'.db = store.db]_vars

C27_Witness ==
    /\ store.last = [op |-> "getDatabaseStats", outcome |-> "StoreUnavailable"]
    /\ ~store.isConnected /\ store.db
    /\ store.driverCalls > 0

\* C22: every `initialize` response advertises the capabilities declared at
\* start-up, and advertises a capability (tools, resources, prompts, logging)
\* only if the server has a handler for its methods.  Under SpecNode.
C22_AdvertisedOnlyIfHandled ==
    node.advertised.answered =>
        /\ node.advertised.capabilities = node.capabilities
        /\ \A cap \in node.advertised.capabilities :
              CapabilityMethods(cap) \cap node.requestHandlers # {}

\* C25: a registration that fails leaves the process running: the
\* application never exits with tools of its plan still to register.
\* Under SpecLifecycle.
C25_FailedRegistrationIsLocal ==
    runtime = "java" => ~(app.exited /\ app.plan # << >>)

\* C26: when no text-generation provider is configured, LLMManager never
\* becomes initialized, the transport is never connected, no request is
\* served, the process exits, and unless a signal ended it first its exit
\* code is 1.  Under SpecNodeFair.
NoProviderConfigured == runtime = "node" /\ node.env.providers = {}

C26_NothingServedWithoutProvider ==
    NoProviderConfigured =>
        /\ ~node.initialized
        /\ ~node.serverConnected
        /\ node.served = 0
        /\ (node.exited /\ ~node.signalled) => node.exitCode = 1

C26_NoProviderAbortsStartup ==
    /\ []C26_NothingServedWithoutProvider
    /\ NoProviderConfigured ~> node.exited

C26_Witness ==
    /\ NoProviderConfigured
    /\ store.isConnected
    /\ node.exited /\ node.exitCode = 1 /\ ~node.signalled
    /\ ~node.initialized /\ ~node.serverConnected /\ node.served = 0

\* C28: llm_generate generates with the temperature and maxTokens the caller
\* supplied, both ends of the temperature bound 0.0-2.0 included, and with
\* the defaults 0.7 and 1000 only when the field is absent.  Under SpecNode.
C28_SuppliedValuesAreUsed ==
    (node.generation.called /\ node.generation.outcome = "generated") =>
        LET args == node.generation.args IN
        /\ node.generation.temperature =
              IF "temperature" \in DOMAIN args THEN args.temperature ELSE DefaultTemperature
        /\ node.generation.maxTokens =
              IF "maxTokens" \in DOMAIN args THEN args.maxTokens ELSE DefaultMaxTokens

\* C29 as claimed: the registry is fully populated before the first message
\* is accepted, no tools/list or tools/call is processed against a registry
\* still being populated, the transport is not started before a message
\* handler is set, and the registry is empty once shutdown has run, in the
\* Java and in the Node server.  Under SpecLifecycle.
C29_ServedOnlyOncePopulated ==
    /\ tasks' # tasks => (app.pc = "serving" /\ app.plan = << >>)
    /\ node'.served # node.served => tools = RegistryOf(NodeLifecycleTools)

C29_StartedOnlyWithHandler ==
    (isRunning \/ loopPc # "unstarted") => app.messageHandler

C29_HookClearsRegistry ==
    hookPc \in {"toolsCleared", "exited"} => tools = << >>

InitializedSent ==
    \E k \in DOMAIN tasks : tasks[k].msg.frame = "ok" /\ tasks[k].msg.method = "initialized"

C31_NotReadyWithoutInitialized ==
    ~InitializedSent =>
        /\ ~isInitialized
        /\ \A k \in DOMAIN tasks :
              (Handled(k) /\ tasks[k].msg.method \in {"tools/list", "tools/call"}) =>
                  tasks[k].response =
                      createErrorResponse(RequestId(k, tasks[k].msg), ServerNotInitialized)

C31_OnlyInitializedSetsFlag ==
    /\ []C31_NotReadyWithoutInitialized
    /\ [][isInitialized' # isInitialized =>
             \E k \in DOMAIN tasks :
                 HandlesTask(k) /\ tasks[k].msg.method = "initialized"]_vars

C31_Witness ==
    /\ Len(tasks) = 3
    /\ tasks[1].msg.method = "initialize" /\ tasks[1].state = "done"
    /\ tasks[2].msg.method = "notifications/initialized" /\ tasks[2].state = "done"
    /\ tasks[3].msg.method = "tools/list" /\ tasks[3].state = "done"
    /\ \E i \in LinesFor(3) : stdout[i].line.code = ServerNotInitialized

\* C32: in every reachable state of ToolManager, under any interleaving of
\* executeTool calls, errorCount <= executionCount: a call increments
\* executionCount once, as its first step, and errorCount at most once, when
\* it ends with unknown tool, disabled tool or a handler exception.
\* Under SpecDispatch.
C32_ErrorsWithinExecutions ==
    runtime = "java" =>
        /\ errorCount <= executionCount
        /\ \A c \in Callers :
              /\ calls[c].errIncs <= 1
              /\ calls[c].errIncs = 1 =>
                    (calls[c].pc = "done" /\ calls[c].outcome.kind \in FailureKinds)

C32_ErrorCountBounded ==
    /\ []C32_ErrorsWithinExecutions
    /\ [][runtime = "java" =>
             /\ executionCount' # executionCount =>
                   /\ executionCount' = executionCount + 1
                   /\ \E c \in Callers : calls[c].pc = "idle" /\ calls'[c].pc = "get"
             /\ \A c \in Callers :
                   (calls[c].pc = "idle" /\ calls'[c].pc # "idle") =>
                       executionCount' = executionCount + 1
             /\ errorCount' # errorCount =>
                   /\ errorCount' = errorCount + 1
                   /\ \E c \in Callers : calls'[c].errIncs = calls[c].errIncs + 1]_vars

C32_Witness ==
    \E c, d \in Callers :
        /\ runtime = "java"
        /\ calls[c].pc = "done" /\ calls[c].outcome.kind = "ToolDisabled"
        /\ calls[d].pc = "done" /\ calls[d].outcome.kind = "ToolExecutionFailed"
        /\ errorCount = 2 /\ executionCount = 2

ForbiddenText(s) == containsDotDot(s) \/ startsWith(s, "/") \/ startsWith(s, "\\")

\* Where a path argument leads when it is resolved against the base directory
\* name by name, and whether that is outside the base directory.
LeadsTo(s) == normalize(resolve(basePath, normalize(PathsGet(stripDotSlash(replaceBackslash(s))))))
LeadsOutside(s) == ~pathStartsWith(LeadsTo(s), basePath)

FsReturned == fs.pc = "returned"
FsFailedUntouched == fs.error # "none" /\ fs.performed = "none" /\ fs.target = NoPath

\* C34: FileSystemTool.execute performs an action only on a path inside the
\* base directory.  A call whose path argument contains "..", starts with "/"
\* or "\", or resolves outside the base directory ends with an exception and
\* has performed no action of the seven; a call that performed one performed
\* it on a path that starts with the base directory and has no ".." name.
C34_ActionsStayInWorkspace ==
    FsReturned =>
        /\ fs.performed # "none" =>
              /\ fs.performed \in SupportedActions
              /\ pathStartsWith(fs.target, basePath)
              /\ \A i \in 1..Len(fs.target.names) : fs.target.names[i] # DotDotName
              /\ fs.target = LeadsTo(fs.args.path)
        /\ (fs.args.isObject /\ "path" \in fs.args.has
            /\ (ForbiddenText(fs.args.path) \/ LeadsOutside(fs.args.path)))
           => FsFailedUntouched

\* A delete of "./" followed by "/a": the text passes validateArguments, the
\* path is absolute once "./" is stripped, and resolveSafePath refuses it.
C34_Witness ==
    /\ FsReturned
    /\ fs.args.has = {"action", "path"}
    /\ fs.args.action = "delete"
    /\ fs.args.path = <<".", "/", "/", "a">>
    /\ ~ForbiddenText(fs.args.path)
    /\ LeadsOutside(fs.args.path)
    /\ fs.error = ForbiddenPathMessage
    /\ fs.performed = "none"

\* The checks of validateArguments that a set of arguments fails, each taken
\* on its own, and the order the code makes them in.
FsCheckOrder == <<"action", "path", "content", "forbidden">>
FsFails(args, check) ==
    CASE check = "action"    -> "action" \notin args.has
      [] check = "path"      -> "path" \notin args.has
      [] check = "content"   -> args.action = "write" /\ "content" \notin args.has
      [] check = "forbidden" -> "path" \in args.has /\ ForbiddenText(args.path)
FsViolations(args) == {i \in 1..Len(FsCheckOrder) : FsFails(args, FsCheckOrder[i])}
FsFirstViolation(args) ==
    FsCheckOrder[CHOOSE i \in FsViolations(args) : \A j \in FsViolations(args) : i <= j]
FsMessageOf(check) ==
    CASE check = "action"    -> MissingActionMessage
      [] check = "path"      -> MissingPathMessage
      [] check = "content"   -> MissingContentMessage
      [] check = "forbidden" -> ForbiddenPathMessage

\* C35: arguments that fail several checks of validateArguments at once
\* (missing action, missing path, write without content, forbidden path) make
\* execute end with the exception of the first check that fails, in the order
\* action, path, content, forbidden path, and no action is performed.
C35_FirstViolationOnly ==
    (FsReturned /\ fs.args.isObject /\ FsViolations(fs.args) # {}) =>
        /\ fs.error = FsMessageOf(FsFirstViolation(fs.args))
        /\ fs.performed = "none"
        /\ fs.target = NoPath

\* A write without content to "/a": two checks fail, the message is the one
\* about content.
C35_Witness ==
    /\ FsReturned
    /\ fs.args.has = {"action", "path"}
    /\ fs.args.action = "write"
    /\ fs.args.path = <<"/", "a">>
    /\ Cardinality(FsViolations(fs.args)) = 2
    /\ fs.error = MissingContentMessage
    /\ fs.performed = "none"

\* ---- DatabaseManager

\* C39 (as the specification states it): once disconnect() has returned,
\* isConnected is false, also when closing the client or the mongoose
\* connection threw.
C39_DisconnectedAfterDisconnect ==
    [][(store' # store /\ store'.last.op = "disconnect") => ~store'.isConnected]_vars

\* ---- ResourceManager

ReadsResource == resources'.accessCount # resources.accessCount

\* C37: every readResource call adds one to accessCount and at most one to
\* errorCount, nothing else changes the counters, and errorCount <=
\* accessCount throughout; a readResource of a registered resource that is
\* not available or that requires authentication returns the error payload
\* (uri error://internal) without calling readContent().
C37_ErrorsWithinAccesses == resources.errorCount <= resources.accessCount
C37_NoContentWhenUnavailable ==
    /\ []C37_ErrorsWithinAccesses
    /\ [][/\ ReadsResource =>
               /\ resources'.accessCount = resources.accessCount + 1
               /\ resources'.errorCount \in {resources.errorCount, resources.errorCount + 1}
               /\ (/\ resources'.last.asked \in resources.registered
                   /\ (\/ ~resources.available[resources'.last.asked]
                       \/ resources.requiresAuth[resources'.last.asked]))
                  => (resources'.last.uri = ErrorUri /\ ~resources'.last.contentRead)
          /\ ~ReadsResource => resources'.errorCount = resources.errorCount]_vars

\* Both kinds have been read: a registered resource that stopped being
\* available, after a registered one that requires authentication.
C37_Witness ==
    /\ resources.accessCount = 2
    /\ resources.last.asked \in resources.registered
    /\ ~resources.available[resources.last.asked]
    /\ resources.last.uri = ErrorUri
    /\ resources.last.message = "Recurso no disponible"
    /\ ~resources.last.contentRead
    /\ \E u \in resources.registered : resources.requiresAuth[u]

\* ---- the analysis handlers of ToolsRegistry

AnalysisDone(tool) == analysis.pc = "done" /\ analysis.tool = tool

\* C36 (as the specification states it): smart_query sends a find, aggregate
\* or countDocuments built from the provider's text to the document store only
\* when the caller passed execute = true, and its result carries a member that
\* flags the generated query as unverified.
C36_NoExecutionUnlessAsked ==
    (AnalysisDone("smart_query") /\ analysis.fromProvider # {})
        => analysis.args.execute = "true"

\* C38: when find returns no document, analyze_data and data_insights return
\* their fixed result with dataCount 0 and have made no call on LLMManager;
\* find is then the only call they made on DatabaseManager, so data_insights
\* made no countDocuments and no getCollectionSchema call.
C38_NoProviderCallWithoutData ==
    \A tool \in {"analyze_data", "data_insights"} :
        (AnalysisDone(tool) /\ analysis.env.docs = 0 /\ analysis.env.dbThrowsAt # 1) =>
            /\ analysis.outcome = "returned"
            /\ analysis.llmCalls = << >>
            /\ analysis.dbCalls = <<"find">>
            /\ analysis.dataCount = 0
            /\ "dataCount" \in analysis.fields
            /\ analysis.text = IF tool = "analyze_data" THEN NoDataAnalysis
                               ELSE NoDataInsights

\* data_insights on an empty collection, the provider and the store both
\* working.
C38_Witness ==
    /\ AnalysisDone("data_insights")
    /\ analysis.env.docs = 0
    /\ analysis.env.dbThrowsAt = 0
    /\ analysis.env.llmOk
    /\ analysis.llmCalls = << >>
    /\ analysis.dbCalls = <<"find">>
    /\ analysis.dataCount = 0

\* ---- the message loop and its input

LoopEnded == loopPc = "ended" /\ ~isRunning
ServerWaitReturned == app.pc = "stopped"

\* Every message handed to the handler is made of lines that are not blank.
C40_BlankLinesAreSkipped ==
    \A k \in DOMAIN tasks :
        /\ tasks[k].lines # << >>
        /\ \A i \in 1..Len(tasks[k].lines) : tasks[k].lines[i] # "blank"

\* C40: once the input stream is at its end, runMessageLoop terminates,
\* isRunning becomes false and the future of start() completes, so that
\* serverFuture.get() returns (unless the shutdown hook has ended the JVM
\* first).  A read ends the loop only when it has consumed the input to its
\* end: a blank line does not end it; and no blank line is part of a message
\* that reaches the handler.
C40_LoopEndsAtEndOfInput ==
    /\ []C40_BlankLinesAreSkipped
    /\ [][(loopPc = "read" /\ loopPc' = "ended" /\ stdin' # stdin) => AtEOF(stdin')]_vars
    /\ (AtEOF(stdin) ~> (Halted \/ (LoopEnded /\ ServerWaitReturned)))

\* Blank lines around one message: the message was handled, the loop ended at
\* the end of the input and the wait returned, without the shutdown hook.
C40_Witness ==
    /\ stdin.lines = <<"blank", "json", "blank">>
    /\ AtEOF(stdin)
    /\ Len(tasks) = 1
    /\ tasks[1].lines = <<"json">>
    /\ tasks[1].state = "done"
    /\ LoopEnded
    /\ ServerWaitReturned
    /\ hookPc = "idle"

====
